---------------------------- MODULE Spec2Model ----------------------------
(***************************************************************************)
(* Model of the WebGL resource cache of the render System:                 *)
(*   IdMap  (materials / textures / gradients / clip volumes by key)       *)
(*   System.resourceCache  (IModelConnection -> IdMap, evicted on close)   *)
(* Source: src/core/geometry/package.json (the WebGL System module).       *)
(***************************************************************************)
EXTENDS Integers, FiniteSets, Sequences, TLC

(***************************************************************************)
(* Bounds                                                                  *)
(***************************************************************************)
\* number of objects (materials, textures, clip volumes) one run may construct
MaxRes == 2
\* number of distinct Gradient.Symb objects a caller holds
NumSymbRefs == 3
\* number of distinct ClipVector objects a caller holds
NumClipRefs == 3
\* number of IdMap objects one run of the System may construct
MaxMaps == 2

(***************************************************************************)
(* Values                                                                  *)
(***************************************************************************)
\* params.key === undefined
UndefinedKey == "<undefined>"
\* string keys a caller passes; "" is a defined but falsy key
Keys == {"", "a", "b"}
KeyOpt == Keys \cup {UndefinedKey}
\* JavaScript truthiness of an optional string: `if (params.key)`
Truthy(key) == key # UndefinedKey /\ key # ""

\* a function result of `undefined` where a resource is expected
NoResource == [kind |-> "undefined", slot |-> "", n |-> 0]

\* Gradient.Symb objects: object identity is ref; objects 1 and 2 carry equal field values
SymbObjs == {[ref |-> r, mode |-> 1, tint |-> (r + 1) \div 2] : r \in 1..NumSymbRefs}
\* ClipVector objects: object identity is ref; objects 1 and 2 are equal in value
ClipObjs == {[ref |-> r, val |-> (r + 1) \div 2] : r \in 1..NumClipRefs}

EmptyFn == [x \in {} |-> NoResource]
\* Map.prototype.get
MapGet(f, k) == IF k \in DOMAIN f THEN f[k] ELSE NoResource
\* Map.prototype.set
MapSet(f, k, v) == [x \in DOMAIN f \cup {k} |-> IF x = k THEN v ELSE f[x]]
\* Array.from(map.values())
MapValues(f) == {f[k] : k \in DOMAIN f}

\* Gradient.Symb.compareSymb: field-by-field ordering, object identity plays no part
compareSymb(a, b) ==
    IF a.mode < b.mode THEN -1
    ELSE IF a.mode > b.mode THEN 1
    ELSE IF a.tint < b.tint THEN -1
    ELSE IF a.tint > b.tint THEN 1
    ELSE 0

\* Dictionary<K,V>: entries found through the comparator the Dictionary was built with
Dictionary_get(d, key) ==
    LET hits == {e \in d : compareSymb(e.key, key) = 0}
    IN  IF hits = {} THEN NoResource ELSE (CHOOSE e \in hits : TRUE).value

Dictionary_set(d, key, value) ==
    LET hits == {e \in d : compareSymb(e.key, key) = 0}
    IN  IF hits = {}
        THEN d \cup {[key |-> key, value |-> value]}
        ELSE (d \ hits) \cup {[key |-> e.key, value |-> value] : e \in hits}

Dictionary_values(d) == {e.value : e \in d}

(***************************************************************************)
(* IdMap: the object is a record of its four maps.  Every operation is an  *)
(* operator from the IdMap before the call to the IdMap after it and what  *)
(* the call returns; `fresh` is the identity of the object a `new` in the  *)
(* call would construct.                                                   *)
(***************************************************************************)
\* IdMap.constructor
IdMap_new ==
    [materials |-> EmptyFn, textures |-> EmptyFn, gradients |-> {}, clipVolumes |-> EmptyFn]

\* dispose that releases the textures but forgets this.textures.clear()
IdMap_dispose_noClear(m) ==
    [idMap |-> [m EXCEPT !.gradients = {}, !.clipVolumes = EmptyFn],
     disposed |-> MapValues(m.textures) \cup Dictionary_values(m.gradients)
                    \cup MapValues(m.clipVolumes)]

\* IdMap.dispose: `disposed` is the set of resources dispose() was called on
IdMap_dispose(m) ==
    [idMap |-> [m EXCEPT !.textures = EmptyFn, !.gradients = {}, !.clipVolumes = EmptyFn],
     disposed |-> MapValues(m.textures) \cup Dictionary_values(m.gradients)
                    \cup MapValues(m.clipVolumes)]

\* IdMap.addTexture (texture.key is params.key of the params it was built from)
IdMap_addTexture(m, key, texture) ==
    IF Truthy(key) THEN [m EXCEPT !.textures = MapSet(@, key, texture)] ELSE m

\* IdMap.addGradient
IdMap_addGradient(m, symb, texture) ==
    [m EXCEPT !.gradients = Dictionary_set(@, symb, texture)]

\* IdMap.findMaterial
IdMap_findMaterial(m, key) == MapGet(m.materials, key)

\* getMaterial that constructs the material but forgets this.materials.set
IdMap_getMaterial_noSet(m, key, fresh) ==
    IF ~Truthy(key) \/ MapGet(m.materials, key) = NoResource
    THEN [idMap |-> m, result |-> fresh, built |-> 1, attempted |-> TRUE]
    ELSE [idMap |-> m, result |-> MapGet(m.materials, key), built |-> 0, attempted |-> FALSE]

\* getMaterial that tests `undefined === params.key` and so caches under the key ""
IdMap_getMaterial_emptyKey(m, key, fresh) ==
    IF key = UndefinedKey
    THEN [idMap |-> m, result |-> fresh, built |-> 1, attempted |-> TRUE]
    ELSE IF MapGet(m.materials, key) = NoResource
         THEN [idMap |-> [m EXCEPT !.materials = MapSet(@, key, fresh)],
               result |-> fresh, built |-> 1, attempted |-> TRUE]
         ELSE [idMap |-> m, result |-> MapGet(m.materials, key), built |-> 0,
               attempted |-> FALSE]

\* IdMap.getMaterial
IdMap_getMaterial(m, key, fresh) ==
    IF ~Truthy(key)
    THEN [idMap |-> m, result |-> fresh, built |-> 1, attempted |-> TRUE]
    ELSE IF MapGet(m.materials, key) = NoResource
         THEN [idMap |-> [m EXCEPT !.materials = MapSet(@, key, fresh)],
               result |-> fresh, built |-> 1, attempted |-> TRUE]
         ELSE [idMap |-> m, result |-> MapGet(m.materials, key), built |-> 0,
               attempted |-> FALSE]

\* createTexture without the `undefined === handle` test: a Texture is built
\* around the missing handle, cached and returned
IdMap_createTexture_noHandleTest(m, key, handle, fresh) ==
    [idMap |-> IdMap_addTexture(m, key, fresh), result |-> fresh, built |-> 1,
     attempted |-> TRUE]

\* IdMap.createTexture: handle is FALSE when the TextureHandle factory returned undefined
IdMap_createTexture(m, key, handle, fresh) ==
    IF ~handle
    THEN [idMap |-> m, result |-> NoResource, built |-> 0, attempted |-> TRUE]
    ELSE [idMap |-> IdMap_addTexture(m, key, fresh), result |-> fresh, built |-> 1,
          attempted |-> TRUE]

\* IdMap.createTextureFromImageBuffer
IdMap_createTextureFromImageBuffer(m, key, handle, fresh) ==
    IdMap_createTexture(m, key, handle, fresh)

\* IdMap.createTextureFromImage
IdMap_createTextureFromImage(m, key, handle, fresh) ==
    IdMap_createTexture(m, key, handle, fresh)

\* IdMap.createTextureFromCubeImages
IdMap_createTextureFromCubeImages(m, key, handle, fresh) ==
    IdMap_createTexture(m, key, handle, fresh)

\* findTexture that looks the key up in the wrong map
IdMap_findTexture_wrongMap(m, key) ==
    IF key # UndefinedKey THEN MapGet(m.materials, key) ELSE NoResource

\* IdMap.findTexture
IdMap_findTexture(m, key) ==
    IF key # UndefinedKey THEN MapGet(m.textures, key) ELSE NoResource

\* IdMap.getTexture
IdMap_getTexture(m, key, handle, fresh) ==
    IF IdMap_findTexture(m, key) # NoResource
    THEN [idMap |-> m, result |-> IdMap_findTexture(m, key), built |-> 0,
          attempted |-> FALSE]
    ELSE IdMap_createTextureFromImageBuffer(m, key, handle, fresh)

\* IdMap.getTextureFromImage
IdMap_getTextureFromImage(m, key, handle, fresh) ==
    IF IdMap_findTexture(m, key) # NoResource
    THEN [idMap |-> m, result |-> IdMap_findTexture(m, key), built |-> 0,
          attempted |-> FALSE]
    ELSE IdMap_createTextureFromImage(m, key, handle, fresh)

\* IdMap.getTextureFromCubeImages
IdMap_getTextureFromCubeImages(m, key, handle, fresh) ==
    IdMap_createTextureFromCubeImages(m, key, handle, fresh)

\* getGradient over a Dictionary that compares symbols by object identity
IdMap_getGradient_byIdentity(m, grad, handle, fresh) ==
    LET hits == {e \in m.gradients : e.key.ref = grad.ref}
    IN  IF hits # {}
        THEN [idMap |-> m, result |-> (CHOOSE e \in hits : TRUE).value, built |-> 0,
              attempted |-> FALSE]
        ELSE IF ~handle
             THEN [idMap |-> m, result |-> NoResource, built |-> 0, attempted |-> TRUE]
             ELSE [idMap |-> [m EXCEPT !.gradients = @ \cup {[key |-> grad, value |-> fresh]}],
                   result |-> fresh, built |-> 1, attempted |-> TRUE]

\* IdMap.getGradient
IdMap_getGradient(m, grad, handle, fresh) ==
    IF Dictionary_get(m.gradients, grad) # NoResource
    THEN [idMap |-> m, result |-> Dictionary_get(m.gradients, grad), built |-> 0,
          attempted |-> FALSE]
    ELSE IF ~handle
         THEN [idMap |-> m, result |-> NoResource, built |-> 0, attempted |-> TRUE]
         ELSE [idMap |-> IdMap_addGradient(m, grad, fresh), result |-> fresh,
               built |-> 1, attempted |-> TRUE]

\* getClipVolume that builds the volume but forgets this.clipVolumes.set
IdMap_getClipVolume_noSet(m, clipVector, mask, planes, fresh) ==
    IF MapGet(m.clipVolumes, clipVector.ref) # NoResource
    THEN [idMap |-> m, result |-> MapGet(m.clipVolumes, clipVector.ref), built |-> 0,
          attempted |-> FALSE, kind |-> "cached", tried |-> <<>>]
    ELSE IF mask \/ planes
         THEN [idMap |-> m, result |-> fresh, built |-> 1, attempted |-> TRUE,
               kind |-> IF mask THEN "mask" ELSE "planes",
               tried |-> IF mask THEN <<"ClipMaskVolume">>
                         ELSE <<"ClipMaskVolume", "ClipPlanesVolume">>]
         ELSE [idMap |-> m, result |-> NoResource, built |-> 0, attempted |-> TRUE,
               kind |-> "none", tried |-> <<"ClipMaskVolume", "ClipPlanesVolume">>]

\* getClipVolume that prefers the plane-based volume
IdMap_getClipVolume_planesFirst(m, clipVector, mask, planes, fresh) ==
    LET existingClipVolume == MapGet(m.clipVolumes, clipVector.ref)
    IN  IF existingClipVolume # NoResource
        THEN [idMap |-> m, result |-> existingClipVolume, built |-> 0, attempted |-> FALSE,
              kind |-> "cached", tried |-> <<>>]
        ELSE IF mask \/ planes
             THEN [idMap |-> [m EXCEPT !.clipVolumes = MapSet(@, clipVector.ref, fresh)],
                   result |-> fresh, built |-> 1, attempted |-> TRUE,
                   kind |-> IF planes THEN "planes" ELSE "mask",
                   tried |-> IF planes THEN <<"ClipPlanesVolume">>
                             ELSE <<"ClipPlanesVolume", "ClipMaskVolume">>]
             ELSE [idMap |-> m, result |-> NoResource, built |-> 0, attempted |-> TRUE,
                   kind |-> "none", tried |-> <<"ClipPlanesVolume", "ClipMaskVolume">>]

\* IdMap.getClipVolume: mask / planes are FALSE when ClipMaskVolume.create /
\* ClipPlanesVolume.create returned undefined; the Map is keyed by the ClipVector
\* object.  kind is the volume returned, tried the factories called, in order.
IdMap_getClipVolume(m, clipVector, mask, planes, fresh) ==
    LET existingClipVolume == MapGet(m.clipVolumes, clipVector.ref)
        maskVolume == IF mask THEN fresh ELSE NoResource
        clipVolume == IF maskVolume = NoResource
                      THEN (IF planes THEN fresh ELSE NoResource)
                      ELSE maskVolume
        tried == IF maskVolume = NoResource
                 THEN <<"ClipMaskVolume", "ClipPlanesVolume">>
                 ELSE <<"ClipMaskVolume">>
    IN  IF existingClipVolume # NoResource
        THEN [idMap |-> m, result |-> existingClipVolume, built |-> 0, attempted |-> FALSE,
              kind |-> "cached", tried |-> <<>>]
        ELSE IF clipVolume # NoResource
             THEN [idMap |-> [m EXCEPT !.clipVolumes = MapSet(@, clipVector.ref, clipVolume)],
                   result |-> clipVolume, built |-> 1, attempted |-> TRUE,
                   kind |-> IF maskVolume # NoResource THEN "mask" ELSE "planes",
                   tried |-> tried]
             ELSE [idMap |-> m, result |-> NoResource, built |-> 0, attempted |-> TRUE,
                   kind |-> "none", tried |-> tried]

(***************************************************************************)
(* System.resourceCache: a Map from IModelConnection to IdMap.  IdMap       *)
(* objects live in idMaps (object identity -> the four maps); an IdMap is  *)
(* an object still after the cache has dropped it.                         *)
(***************************************************************************)
\* the IModelConnections of a run
Connections == {"imodelA", "imodelB"}
\* createTextureFromImage(image, hasAlpha, undefined, params)
UndefinedConnection == "<undefined>"
\* a lookup in resourceCache that returns undefined
NoIdMap == 0

\* Map.prototype.delete
MapDelete(f, k) == [x \in DOMAIN f \ {k} |-> f[x]]

\* System.createIModelMap: freshMap is the identity of the IdMap `new IdMap()` constructs
System_createIModelMap(rc, heap, imodel, freshMap) ==
    IF imodel \in DOMAIN rc
    THEN [resourceCache |-> rc, idMaps |-> heap, idMap |-> rc[imodel], created |-> FALSE]
    ELSE [resourceCache |-> MapSet(rc, imodel, freshMap),
          idMaps |-> MapSet(heap, freshMap, IdMap_new),
          idMap |-> freshMap, created |-> TRUE]

\* getIdMap that makes an IdMap for every request
System_getIdMap_alwaysNew(rc, heap, imodel, freshMap) ==
    [resourceCache |-> MapSet(rc, imodel, freshMap),
     idMaps |-> MapSet(heap, freshMap, IdMap_new),
     idMap |-> freshMap, created |-> TRUE]

\* getIdMap that serves a connection without an IdMap from the IdMap of another
System_getIdMap_shared(rc, heap, imodel, freshMap) ==
    IF imodel \in DOMAIN rc
    THEN [resourceCache |-> rc, idMaps |-> heap, idMap |-> rc[imodel], created |-> FALSE]
    ELSE IF DOMAIN rc # {}
    THEN [resourceCache |-> MapSet(rc, imodel, rc[CHOOSE d \in DOMAIN rc : TRUE]),
          idMaps |-> heap, idMap |-> rc[CHOOSE d \in DOMAIN rc : TRUE], created |-> FALSE]
    ELSE System_createIModelMap(rc, heap, imodel, freshMap)

\* System.getIdMap
System_getIdMap(rc, heap, imodel, freshMap) ==
    IF imodel \in DOMAIN rc
    THEN [resourceCache |-> rc, idMaps |-> heap, idMap |-> rc[imodel], created |-> FALSE]
    ELSE System_createIModelMap(rc, heap, imodel, freshMap)

\* removeIModelMap that disposes the IdMap but leaves it in resourceCache
System_removeIModelMap_noDelete(rc, heap, imodel) ==
    IF imodel \notin DOMAIN rc
    THEN [resourceCache |-> rc, idMaps |-> heap, disposed |-> {}, idMap |-> NoIdMap]
    ELSE [resourceCache |-> rc,
          idMaps |-> [heap EXCEPT ![rc[imodel]] = IdMap_dispose(@).idMap],
          disposed |-> IdMap_dispose(heap[rc[imodel]]).disposed,
          idMap |-> rc[imodel]]

\* System.removeIModelMap, the listener of IModelConnection.onClose: idMap is
\* the IdMap it disposed (NoIdMap if the connection had none)
System_removeIModelMap(rc, heap, imodel) ==
    IF imodel \notin DOMAIN rc
    THEN [resourceCache |-> rc, idMaps |-> heap, disposed |-> {}, idMap |-> NoIdMap]
    ELSE [resourceCache |-> MapDelete(rc, imodel),
          idMaps |-> [heap EXCEPT ![rc[imodel]] = IdMap_dispose(@).idMap],
          disposed |-> IdMap_dispose(heap[rc[imodel]]).disposed,
          idMap |-> rc[imodel]]

\* a function object: a method of the System, or what Function.prototype.bind
\* made of one.  bind returns a new function object, never the one it was given.
Method(name) == [fn |-> name, bound |-> FALSE]
Function_bind(f) == [fn |-> f.fn, bound |-> TRUE]

\* BeEvent: an event is the set of the listeners registered on it;
\* removeListener removes the listener that is the function object it is given
BeEvent_new == {}
BeEvent_addListener(ev, listener) == ev \cup {listener}
BeEvent_removeListener(ev, listener) == ev \ {listener}

\* the listeners of the event that run System.removeIModelMap when it is raised
RemoveIModelMapListeners(ev) == {l \in ev : l.fn = "removeIModelMap"}

\* System.constructor: the resource cache and the subscription to onClose
System_constructor(ev) ==
    [resourceCache |-> EmptyFn,
     onClose |-> BeEvent_addListener(ev, Function_bind(Method("removeIModelMap")))]

\* dispose that disposes the IdMaps but forgets resourceCache.clear()
System_dispose_noClear(rc, heap, ev) ==
    [resourceCache |-> rc,
     idMaps |-> [i \in DOMAIN heap |->
                    IF i \in MapValues(rc) THEN IdMap_dispose(heap[i]).idMap ELSE heap[i]],
     disposed |-> UNION {IdMap_dispose(heap[i]).disposed : i \in MapValues(rc)},
     disposedMaps |-> MapValues(rc),
     onClose |-> BeEvent_removeListener(ev, Method("removeIModelMap"))]

\* System.dispose: dispose() on every IdMap of resourceCache, resourceCache.clear()
\* and onClose.removeListener(this.removeIModelMap)
System_dispose(rc, heap, ev) ==
    [resourceCache |-> EmptyFn,
     idMaps |-> [i \in DOMAIN heap |->
                    IF i \in MapValues(rc) THEN IdMap_dispose(heap[i]).idMap ELSE heap[i]],
     disposed |-> UNION {IdMap_dispose(heap[i]).disposed : i \in MapValues(rc)},
     disposedMaps |-> MapValues(rc),
     onClose |-> BeEvent_removeListener(ev, Method("removeIModelMap"))]

\* a request served by the IdMap of the connection: g is what getIdMap returned
\* and r what the IdMap operation did
Served(g, r) ==
    [resourceCache |-> g.resourceCache,
     idMaps |-> [g.idMaps EXCEPT ![g.idMap] = r.idMap],
     idMap |-> g.idMap, created |-> g.created,
     result |-> r.result, built |-> r.built]

\* System.createMaterial
System_createMaterial(rc, heap, key, imodel, freshMap, fresh) ==
    LET g == System_getIdMap(rc, heap, imodel, freshMap)
    IN  Served(g, IdMap_getMaterial(g.idMaps[g.idMap], key, fresh))

\* findMaterial that asks getIdMap for the IdMap of the connection
System_findMaterial_viaGetIdMap(rc, heap, key, imodel) ==
    LET g == System_getIdMap(rc, heap, imodel, Cardinality(DOMAIN heap) + 1)
    IN  [resourceCache |-> g.resourceCache, idMaps |-> g.idMaps, idMap |-> g.idMap,
         created |-> g.created, result |-> IdMap_findMaterial(g.idMaps[g.idMap], key),
         built |-> 0]

\* System.findMaterial
System_findMaterial(rc, heap, key, imodel) ==
    IF imodel \notin DOMAIN rc
    THEN [resourceCache |-> rc, idMaps |-> heap, idMap |-> NoIdMap, created |-> FALSE,
          result |-> NoResource, built |-> 0]
    ELSE [resourceCache |-> rc, idMaps |-> heap, idMap |-> rc[imodel], created |-> FALSE,
          result |-> IdMap_findMaterial(heap[rc[imodel]], key), built |-> 0]

\* System.findTexture
System_findTexture(rc, heap, key, imodel) ==
    IF imodel \notin DOMAIN rc
    THEN [resourceCache |-> rc, idMaps |-> heap, idMap |-> NoIdMap, created |-> FALSE,
          result |-> NoResource, built |-> 0]
    ELSE [resourceCache |-> rc, idMaps |-> heap, idMap |-> rc[imodel], created |-> FALSE,
          result |-> IdMap_findTexture(heap[rc[imodel]], key), built |-> 0]

\* System.createTextureFromImageBuffer
System_createTextureFromImageBuffer(rc, heap, imodel, key, handle, freshMap, fresh) ==
    LET g == System_getIdMap(rc, heap, imodel, freshMap)
    IN  Served(g, IdMap_getTexture(g.idMaps[g.idMap], key, handle, fresh))

\* createTextureFromImage that serves the undefined connection from resourceCache too
System_createTextureFromImage_viaCache(rc, heap, imodel, key, handle, freshMap, fresh) ==
    LET g == System_getIdMap(rc, heap, imodel, freshMap)
    IN  Served(g, IdMap_getTextureFromImage(g.idMaps[g.idMap], key, handle, fresh))

\* System.createTextureFromImage
System_createTextureFromImage(rc, heap, imodel, key, handle, freshMap, fresh) ==
    IF imodel = UndefinedConnection
    THEN [resourceCache |-> rc, idMaps |-> heap, idMap |-> NoIdMap, created |-> FALSE,
          result |-> IF handle THEN fresh ELSE NoResource,
          built |-> IF handle THEN 1 ELSE 0]
    ELSE LET g == System_getIdMap(rc, heap, imodel, freshMap)
         IN  Served(g, IdMap_getTextureFromImage(g.idMaps[g.idMap], key, handle, fresh))

\* System.createTextureFromCubeImages
System_createTextureFromCubeImages(rc, heap, imodel, key, handle, freshMap, fresh) ==
    LET g == System_getIdMap(rc, heap, imodel, freshMap)
    IN  Served(g, IdMap_getTextureFromCubeImages(g.idMaps[g.idMap], key, handle, fresh))

\* System.getGradientTexture
System_getGradientTexture(rc, heap, symb, imodel, handle, freshMap, fresh) ==
    LET g == System_getIdMap(rc, heap, imodel, freshMap)
    IN  Served(g, IdMap_getGradient(g.idMaps[g.idMap], symb, handle, fresh))

\* System.getClipVolume
System_getClipVolume(rc, heap, clipVector, imodel, mask, planes, freshMap, fresh) ==
    LET g == System_getIdMap(rc, heap, imodel, freshMap)
    IN  Served(g, IdMap_getClipVolume(g.idMaps[g.idMap], clipVector, mask, planes, fresh))

(***************************************************************************)
(* The texture-unit binding table of the System                            *)
(***************************************************************************)
\* how many texture units and how many WebGLTexture objects a run uses
NumUnits == 2
NumTextures == 2

\* TextureUnit.Zero (GL.TEXTURE0); unit i of the table is TextureUnit.Zero + i
TextureUnit_Zero == 33984
TextureUnits == {TextureUnit_Zero + i : i \in 0..(NumUnits - 1)}

\* a TextureBinding: a WebGLTexture or undefined; the driver takes null for none
UndefinedTexture == 0
NullTexture == -1
Textures == 1..NumTextures
TextureBindings == Textures \cup {UndefinedTexture}

\* private readonly _textureBindings: TextureBinding[] = []: every index reads undefined
TextureBindings_new == [i \in 0..(NumUnits - 1) |-> UndefinedTexture]

\* bindTexture that issues the driver calls but never writes the table
System_bindTexture_noRecord(bindings, unit, target, texture) ==
    IF bindings[unit - TextureUnit_Zero] = texture
    THEN [textureBindings |-> bindings, calls |-> <<>>]
    ELSE [textureBindings |-> bindings,
          calls |-> <<[fn |-> "activeTexture", unit |-> unit, target |-> "", texture |-> NullTexture],
                      [fn |-> "bindTexture", unit |-> unit, target |-> target,
                       texture |-> IF UndefinedTexture # texture THEN texture ELSE NullTexture]>>]

\* System.bindTexture: calls is the sequence of driver calls it issued
System_bindTexture(bindings, unit, target, texture) ==
    IF bindings[unit - TextureUnit_Zero] = texture
    THEN [textureBindings |-> bindings, calls |-> <<>>]
    ELSE [textureBindings |-> [bindings EXCEPT ![unit - TextureUnit_Zero] = texture],
          calls |-> <<[fn |-> "activeTexture", unit |-> unit, target |-> "", texture |-> NullTexture],
                      [fn |-> "bindTexture", unit |-> unit, target |-> target,
                       texture |-> IF UndefinedTexture # texture THEN texture ELSE NullTexture]>>]

System_bindTexture2d(bindings, unit, texture) ==
    System_bindTexture(bindings, unit, "TwoDee", texture)

System_bindTextureCubeMap(bindings, unit, texture) ==
    System_bindTexture(bindings, unit, "CubeMap", texture)

\* System.disposeTexture: deleteTexture, then the first table entry that holds
\* the texture becomes undefined
System_disposeTexture(bindings, texture) ==
    LET hits == {i \in DOMAIN bindings : bindings[i] = texture}
        first == CHOOSE i \in hits : \A j \in hits : i <= j
    IN  [textureBindings |-> IF hits = {} THEN bindings
                             ELSE [bindings EXCEPT ![first] = UndefinedTexture],
         calls |-> <<[fn |-> "deleteTexture", unit |-> TextureUnit_Zero, target |-> "",
                      texture |-> texture]>>]

(***************************************************************************)
(* The vertex attribute state of the System: what the driver has (current) *)
(* and what the next draw wants (next)                                     *)
(***************************************************************************)
\* how many vertex attribute slots the two arrays of a run have
NumSlots == 2
AttribSlots == 0..(NumSlots - 1)

\* const enum VertexAttribState
Disabled == 0
Enabled == 1
Instanced == 4
InstancedEnabled == 5

\* a & b on naturals
RECURSIVE BitAnd(_, _)
BitAnd(a, b) ==
    IF a = 0 \/ b = 0 THEN 0
    ELSE 2 * BitAnd(a \div 2, b \div 2) + (IF a % 2 = 1 /\ b % 2 = 1 THEN 1 ELSE 0)

\* a & ~b
BitClear(a, b) == a - BitAnd(a, b)

VertexAttribStates_new == [i \in AttribSlots |-> Disabled]

\* a driver call of the vertex attribute reconciliation
EnableCall(i) == [fn |-> "enableVertexAttribArray", slot |-> i, divisor |-> 0]
DisableCall(i) == [fn |-> "disableVertexAttribArray", slot |-> i, divisor |-> 0]
DivisorCall(i, d) == [fn |-> "vertexAttribDivisorANGLE", slot |-> i, divisor |-> d]

\* the vertex attribute arrays of a new WebGL context: disabled, divisor 0
DriverAttribs_new == [i \in AttribSlots |-> [enabled |-> FALSE, divisor |-> 0]]

\* what a sequence of driver calls does to the arrays of the context
RECURSIVE Driver_apply(_, _)
Driver_apply(d, calls) ==
    IF calls = <<>> THEN d
    ELSE LET c == Head(calls)
         IN  Driver_apply(
                 CASE c.fn = "enableVertexAttribArray" -> [d EXCEPT ![c.slot].enabled = TRUE]
                   [] c.fn = "disableVertexAttribArray" -> [d EXCEPT ![c.slot].enabled = FALSE]
                   [] OTHER -> [d EXCEPT ![c.slot].divisor = c.divisor],
                 Tail(calls))

\* enableVertexAttribArray that issues the driver call at once
System_enableVertexAttribArray_eager(cur, next, id, instanced) ==
    [cur |-> [cur EXCEPT ![id] = BitAnd(@, Instanced) + Enabled],
     next |-> [next EXCEPT ![id] = IF instanced THEN InstancedEnabled ELSE Enabled],
     calls |-> IF BitAnd(Enabled, cur[id]) = 0 THEN <<EnableCall(id)>> ELSE <<>>]

\* System.enableVertexAttribArray
System_enableVertexAttribArray(cur, next, id, instanced) ==
    [cur |-> cur,
     next |-> [next EXCEPT ![id] = IF instanced THEN InstancedEnabled ELSE Enabled],
     calls |-> <<>>]

\* the body of the loop of updateVertexAttribArrays for slot i: what it calls
\* and whether the use of a missing instancing extension threw
SlotCalls(oldState, newState, i) ==
    LET wasEnabled == 0 # BitAnd(Enabled, oldState)
        nowEnabled == 0 # BitAnd(Enabled, newState)
        wasInstanced == 0 # BitAnd(Instanced, oldState)
        nowInstanced == 0 # BitAnd(Instanced, newState)
    IN  [toggle |-> IF oldState # newState /\ wasEnabled # nowEnabled
                    THEN (IF nowEnabled THEN <<EnableCall(i)>> ELSE <<DisableCall(i)>>)
                    ELSE <<>>,
         divisor |-> IF oldState # newState /\ nowEnabled /\ wasInstanced # nowInstanced
                     THEN <<DivisorCall(i, IF nowInstanced THEN 1 ELSE 0)>>
                     ELSE <<>>]

\* the loop of updateVertexAttribArrays from slot i on; a divisor call on a
\* System without the instancing extension throws and ends the loop
RECURSIVE UpdateFrom(_, _, _, _, _)
UpdateFrom(i, cur, next, calls, ext) ==
    IF i >= NumSlots THEN [cur |-> cur, next |-> next, calls |-> calls, threw |-> FALSE]
    ELSE LET c == SlotCalls(cur[i], next[i], i)
         IN  IF c.divisor # <<>> /\ ~ext
             THEN [cur |-> cur, next |-> next, calls |-> calls \o c.toggle, threw |-> TRUE]
             ELSE UpdateFrom(i + 1, [cur EXCEPT ![i] = next[i]],
                             [next EXCEPT ![i] = BitClear(@, Enabled)],
                             calls \o c.toggle \o c.divisor, ext)

\* updateVertexAttribArrays that takes every slot of current for Disabled
System_updateVertexAttribArrays_noDiff(cur, next, ext) ==
    UpdateFrom(0, [i \in DOMAIN cur |-> Disabled], next, <<>>, ext)

\* updateVertexAttribArrays that also sets the divisor of a slot it disables
System_updateVertexAttribArrays_divisorAlways(cur, next, ext) ==
    LET off == {i \in DOMAIN next : cur[i] # next[i] /\ BitAnd(Enabled, next[i]) = 0}
    IN  [UpdateFrom(0, cur, next, <<>>, ext) EXCEPT
            !.calls = IF off = {} THEN @ ELSE @ \o <<DivisorCall(CHOOSE i \in off : TRUE, 0)>>]

\* updateVertexAttribArrays that leaves the Enabled bits of next set
System_updateVertexAttribArrays_noReset(cur, next, ext) ==
    [UpdateFrom(0, cur, next, <<>>, ext) EXCEPT !.next = next]

\* updateVertexAttribArrays that never writes current
System_updateVertexAttribArrays_noCommit(cur, next, ext) ==
    [UpdateFrom(0, cur, next, <<>>, ext) EXCEPT !.cur = cur]

\* updateVertexAttribArrays that never disables an array in the driver
System_updateVertexAttribArrays_keepEnabled(cur, next, ext) ==
    [UpdateFrom(0, cur, next, <<>>, ext) EXCEPT
        !.calls = SelectSeq(@, LAMBDA c : c.fn # "disableVertexAttribArray")]

\* updateVertexAttribArrays that never sets a divisor
System_updateVertexAttribArrays_noDivisor(cur, next, ext) ==
    [UpdateFrom(0, cur, next, <<>>, TRUE) EXCEPT
        !.calls = SelectSeq(@, LAMBDA c : c.fn # "vertexAttribDivisorANGLE")]

\* System.updateVertexAttribArrays: ext is undefined # this._instancingExtension
System_updateVertexAttribArrays(cur, next, ext) == UpdateFrom(0, cur, next, <<>>, ext)

(***************************************************************************)
(* Capabilities: the probe of a WebGL context                              *)
(***************************************************************************)
forceNoDrawBuffers == FALSE
forceHalfFloat == FALSE

\* the extensions init() enables when the context lists them, and one it does not
AllowList ==
    {"WEBGL_draw_buffers", "OES_element_index_uint", "OES_texture_float",
     "OES_texture_half_float", "WEBGL_depth_texture", "EXT_color_buffer_float",
     "EXT_shader_texture_lod", "ANGLE_instanced_arrays"}
OtherExtensions == {"OES_standard_derivatives"}
Extensions == AllowList \cup OtherExtensions

\* the test of the loop of init() on the name of a listed extension
IsAllowed_any(ext) == TRUE

IsAllowed(ext) ==
    \/ (~forceNoDrawBuffers /\ ext = "WEBGL_draw_buffers")
    \/ ext = "OES_element_index_uint"
    \/ (~forceHalfFloat /\ ext = "OES_texture_float")
    \/ ext = "OES_texture_half_float"
    \/ ext = "WEBGL_depth_texture"
    \/ ext = "EXT_color_buffer_float"
    \/ ext = "EXT_shader_texture_lod"
    \/ ext = "ANGLE_instanced_arrays"

\* extension objects, null and undefined
ExtensionObject(ext) == [extension |-> ext]
NullObject == [extension |-> "null"]
UndefinedObject == [extension |-> "undefined"]

\* the texture unit counts the contexts of a run report
FragTextureUnits == {4, 5}
VertTextureUnits == {5, 6}

\* a WebGL context: getSupportedExtensions() returns null or the list `listed`,
\* getExtension(ext) returns an object for the extensions of `enables` and null
\* for the others.  st says of each extension whether the context does not
\* list it ("absent"), lists it but returns null for it ("listed"), or lists
\* it and returns an object for it ("enabled").
\* renderable is the set of texture types for which a framebuffer with a
\* texture of the type as its colour attachment is complete.
Context(h, st, f, v, renderable) ==
    [hasList |-> h, listed |-> {x \in DOMAIN st : st[x] # "absent"},
     enables |-> {x \in DOMAIN st : st[x] = "enabled"},
     maxFragTextureUnits |-> f, maxVertTextureUnits |-> v, renderable |-> renderable]

TextureTypes == {"FLOAT", "HALF_FLOAT_OES"}

\* the contexts in which every extension has one of the statuses
Contexts(statuses) ==
    {Context(TRUE, st, f, v, rt) :
        st \in [Extensions -> statuses], f \in FragTextureUnits,
        v \in VertTextureUnits, rt \in SUBSET TextureTypes}
    \cup {Context(FALSE, [x \in Extensions |-> "absent"], f, v, rt) :
            f \in FragTextureUnits, v \in VertTextureUnits, rt \in SUBSET TextureTypes}

gl_getExtension(gl, ext) == IF ext \in gl.enables THEN ExtensionObject(ext) ELSE NullObject

\* Capabilities.queryExtensionObject on the extension map
Capabilities_queryExtensionObject(extensionMap, ext) ==
    LET extObj == IF ext \in DOMAIN extensionMap THEN extensionMap[ext] ELSE UndefinedObject
    IN  IF NullObject # extObj THEN extObj ELSE UndefinedObject

\* the supports* getters that test for an extension object, and the extension of each
SupportsFlag ==
    [supportsDrawBuffers |-> "WEBGL_draw_buffers",
     supportsInstancing |-> "ANGLE_instanced_arrays",
     supports32BitElementIndex |-> "OES_element_index_uint",
     supportsTextureFloat |-> "OES_texture_float",
     supportsTextureHalfFloat |-> "OES_texture_half_float",
     supportsShaderTextureLOD |-> "EXT_shader_texture_lod"]

Capabilities_supports(caps, flag) ==
    Capabilities_queryExtensionObject(caps.extensionMap, SupportsFlag[flag]) # UndefinedObject

\* _hasRequiredFeatures that requires nothing
Capabilities_hasRequiredFeatures_none(caps) == TRUE

\* Capabilities._hasRequiredFeatures
Capabilities_hasRequiredFeatures(caps) == Capabilities_supports(caps, "supports32BitElementIndex")

\* _hasRequiredTextureUnits that asks for one fragment unit more
Capabilities_hasRequiredTextureUnits_strict(caps) ==
    caps.maxFragTextureUnits > 5 /\ caps.maxVertTextureUnits > 5

\* Capabilities._hasRequiredTextureUnits
Capabilities_hasRequiredTextureUnits(caps) ==
    caps.maxFragTextureUnits > 4 /\ caps.maxVertTextureUnits > 5

\* Capabilities.isTextureRenderable: the framebuffer-complete test
Capabilities_isTextureRenderable(gl, texType) == texType \in gl.renderable

\* maxRenderType that trusts the extensions the probe enabled
Capabilities_maxRenderType_byExtension(gl, extensionMap) ==
    IF Capabilities_queryExtensionObject(extensionMap, "OES_texture_float") # UndefinedObject
    THEN "TextureFloat"
    ELSE IF Capabilities_queryExtensionObject(extensionMap, "OES_texture_half_float")
                # UndefinedObject
         THEN "TextureHalfFloat"
         ELSE "TextureUnsignedByte"

\* Capabilities.init: the maximum color-renderable attachment type (a RenderType)
Capabilities_maxRenderType(gl, extensionMap) ==
    IF ~forceHalfFloat /\ Capabilities_isTextureRenderable(gl, "FLOAT")
    THEN "TextureFloat"
    ELSE LET hfExt == Capabilities_queryExtensionObject(extensionMap, "OES_texture_half_float")
         IN  IF hfExt # UndefinedObject /\ Capabilities_isTextureRenderable(gl, "HALF_FLOAT_OES")
             THEN "TextureHalfFloat"
             ELSE "TextureUnsignedByte"

\* maxDepthType that takes the depth texture for granted
Capabilities_maxDepthType_always(extensionMap) == "TextureUnsignedInt24Stencil8"

\* Capabilities.init: the maximum depth attachment type (a DepthType)
Capabilities_maxDepthType(extensionMap) ==
    IF Capabilities_queryExtensionObject(extensionMap, "WEBGL_depth_texture") # UndefinedObject
    THEN "TextureUnsignedInt24Stencil8"
    ELSE "RenderBufferUnsignedShort16"

\* Capabilities.init: the limits and the extension map it fills, the
\* extensions it called getExtension for, and what it returns
Capabilities_init(gl) ==
    LET tried == IF gl.hasList THEN {ext \in gl.listed : IsAllowed(ext)} ELSE {}
        extensionMap == [ext \in {e \in tried : NullObject # gl_getExtension(gl, e)}
                            |-> gl_getExtension(gl, ext)]
        caps == [maxFragTextureUnits |-> gl.maxFragTextureUnits,
                 maxVertTextureUnits |-> gl.maxVertTextureUnits,
                 extensionMap |-> extensionMap,
                 maxRenderType |-> Capabilities_maxRenderType(gl, extensionMap),
                 maxDepthType |-> Capabilities_maxDepthType(extensionMap)]
    IN  [caps |-> caps, getExtensionCalls |-> tried,
         ok |-> Capabilities_hasRequiredFeatures(caps)
                  /\ Capabilities_hasRequiredTextureUnits(caps)]

\* Capabilities.create: created is FALSE when it returns undefined
Capabilities_create(gl) ==
    LET r == Capabilities_init(gl)
    IN  [created |-> r.ok, caps |-> r.caps, getExtensionCalls |-> r.getExtensionCalls]

\* System.create that constructs the System whatever Capabilities.create returned
System_create_lenient(context, hasCanvas, webgl, experimental, ev) ==
    LET hasContext == hasCanvas /\ (webgl \/ experimental)
        c == Capabilities_create(context)
    IN  [threw |-> ~hasContext,
         error |-> IF ~hasCanvas THEN "Failed to obtain HTMLCanvasElement"
                   ELSE IF ~hasContext THEN "Failed to obtain WebGL context" ELSE "",
         hasContext |-> hasContext, probed |-> hasContext, capabilities |-> c,
         instance |-> hasContext,
         onClose |-> IF hasContext THEN System_constructor(ev).onClose ELSE ev]

\* System.create: hasCanvas is whether document.createElement gave a canvas,
\* webgl and experimental whether getContext("webgl") and
\* getContext("experimental-webgl") give the context.  probed is whether
\* Capabilities.create was called, instance whether a System was constructed,
\* onClose the listeners of IModelConnection.onClose afterwards.
System_create(context, hasCanvas, webgl, experimental, ev) ==
    LET hasContext == hasCanvas /\ (webgl \/ experimental)
        c == Capabilities_create(context)
    IN  IF ~hasCanvas
        THEN [threw |-> TRUE, error |-> "Failed to obtain HTMLCanvasElement",
              hasContext |-> FALSE, probed |-> FALSE, capabilities |-> c,
              instance |-> FALSE, onClose |-> ev]
        ELSE IF ~hasContext
        THEN [threw |-> TRUE, error |-> "Failed to obtain WebGL context",
              hasContext |-> FALSE, probed |-> FALSE, capabilities |-> c,
              instance |-> FALSE, onClose |-> ev]
        ELSE IF ~c.created
        THEN [threw |-> TRUE, error |-> "Failed to initialize rendering capabilities",
              hasContext |-> TRUE, probed |-> TRUE, capabilities |-> c,
              instance |-> FALSE, onClose |-> ev]
        ELSE [threw |-> FALSE, error |-> "",
              hasContext |-> TRUE, probed |-> TRUE, capabilities |-> c,
              instance |-> TRUE, onClose |-> System_constructor(ev).onClose]

\* System.createDepthBuffer: the branch of the switch on maxDepthType it takes,
\* the WEBGL_depth_texture handle it reads in the TextureUnsignedInt24Stencil8
\* branch, and whether it failed (assert(false) in the default branch, or the
\* use of an undefined handle)
System_createDepthBuffer(caps) ==
    LET dtExt == Capabilities_queryExtensionObject(caps.extensionMap, "WEBGL_depth_texture")
    IN  CASE caps.maxDepthType = "RenderBufferUnsignedShort16" ->
               [branch |-> "RenderBufferUnsignedShort16", dtExt |-> UndefinedObject,
                failed |-> FALSE]
          [] caps.maxDepthType = "TextureUnsignedInt32" ->
               [branch |-> "TextureUnsignedInt32", dtExt |-> UndefinedObject, failed |-> FALSE]
          [] caps.maxDepthType = "TextureUnsignedInt24Stencil8" ->
               [branch |-> "TextureUnsignedInt24Stencil8", dtExt |-> dtExt,
                failed |-> dtExt = UndefinedObject]
          [] OTHER -> [branch |-> "default", dtExt |-> UndefinedObject, failed |-> TRUE]

(***************************************************************************)
(* TextureStats, the monitor of texture handles                            *)
(***************************************************************************)
\* <<width, height>> of the texture handles
TextureDims == {<<1, 1>>, <<2, 1>>, <<2, 2>>}

Max(a, b) == IF a > b THEN a ELSE b

\* the largest width * height among the handles of the set, from 0
RECURSIVE MaxSizeOf(_, _)
MaxSizeOf(allocated, dims) ==
    IF allocated = {} THEN 0
    ELSE LET entry == CHOOSE t \in allocated : TRUE
         IN  Max(MaxSizeOf(allocated \ {entry}, dims), dims[entry][1] * dims[entry][2])

\* new TextureStats()
TextureStats_new == [allocated |-> {}, maxSize |-> 0]

\* TextureStats.onTextureCreated; failed is a failed assert, which throws
TextureStats_onTextureCreated(stats, tex, dims) ==
    IF tex \in stats.allocated
    THEN [stats |-> stats, failed |-> TRUE]
    ELSE LET size == dims[tex][1] * dims[tex][2]
         IN  [stats |-> [allocated |-> stats.allocated \cup {tex},
                         maxSize |-> Max(size, stats.maxSize)],
              failed |-> FALSE]

\* onTextureDisposed that leaves the handle in the set
TextureStats_onTextureDisposed_keep(stats, tex, dims) ==
    [stats |-> stats, failed |-> tex \notin stats.allocated]

\* onTextureDisposed that never lowers the maximum
TextureStats_onTextureDisposed_noRecompute(stats, tex, dims) ==
    IF tex \notin stats.allocated
    THEN [stats |-> stats, failed |-> TRUE]
    ELSE [stats |-> [allocated |-> stats.allocated \ {tex}, maxSize |-> stats.maxSize],
          failed |-> FALSE]

\* TextureStats.onTextureDisposed
TextureStats_onTextureDisposed(stats, tex, dims) ==
    IF tex \notin stats.allocated
    THEN [stats |-> stats, failed |-> TRUE]
    ELSE LET allocated == stats.allocated \ {tex}
             thisSize == dims[tex][1] * dims[tex][2]
         IN  [stats |-> [allocated |-> allocated,
                         maxSize |-> IF thisSize < stats.maxSize THEN stats.maxSize
                                     ELSE MaxSizeOf(allocated, dims)],
              failed |-> FALSE]

(***************************************************************************)
(* Sheet tiles: System.createSheetTilePolyfaces                            *)
(***************************************************************************)
\* the largest width and height of a tile
MaxExtent == 2
\* the largest number of polygons the clip of a tile results in
MaxPolygons == 2

\* a point by its x and y (z plays no part in the UV parameters)
Point(x, y) == [x |-> x, y |-> y]

RECURSIVE GCD(_, _)
GCD(a, b) == IF b = 0 THEN a ELSE GCD(b, a % b)

\* the number n / d, exactly, in lowest terms (Infinity and NaN when d = 0
\* are not among the values of the tiles below, whose width is at least 1)
Frac(n, d) == [num |-> n \div GCD(n, d), den |-> d \div GCD(n, d)]

\* Range3d.createArray: the smallest axis-aligned range that holds the points
Range3d_createArray(points) ==
    LET xs == {points[k].x : k \in DOMAIN points}
        ys == {points[k].y : k \in DOMAIN points}
    IN  [low |-> Point(CHOOSE m \in xs : \A n \in xs : m <= n,
                       CHOOSE m \in ys : \A n \in ys : m <= n),
         high |-> Point(CHOOSE m \in xs : \A n \in xs : m >= n,
                        CHOOSE m \in ys : \A n \in ys : m >= n)]

\* the corners of an axis-aligned rectangle, counter-clockwise from the lower left
Rectangle(origin, width, height) ==
    <<origin, Point(origin.x + width, origin.y), Point(origin.x + width, origin.y + height),
      Point(origin.x, origin.y + height)>>

\* a face loop of the graph Triangulator makes of a polygon: the nodes around
\* the face and whether its edges have HalfEdgeMask.EXTERIOR set
FaceLoop(nodes, exterior) == [nodes |-> nodes, exterior |-> exterior]

\* a polygon ClipUtilities.clipPolygonToClipShape may return for a tile, by
\* its points; for a polygon of more than 4 points, faces are the face loops
\* announceFaceLoops visits after createTriangulatedGraphFromSingleLoop and
\* flipTriangles
ClippedPolygon(kind, c) ==
    LET outer == FaceLoop(<<c[4], c[3], c[2], c[1]>>, TRUE)
        t1 == FaceLoop(<<c[1], c[2], c[3]>>, FALSE)
        t2 == FaceLoop(<<c[1], c[3], c[4]>>, FALSE)
        five == <<c[1], c[2], c[3], c[4], c[1]>>
    IN  CASE kind = "none" -> [points |-> <<>>, faces |-> <<>>]
          [] kind = "segment" -> [points |-> <<c[1], c[2]>>, faces |-> <<>>]
          [] kind = "triangle" -> [points |-> <<c[1], c[2], c[3]>>, faces |-> <<>>]
          [] kind = "quad" -> [points |-> c, faces |-> <<>>]
          [] kind = "exteriorFirst" -> [points |-> five, faces |-> <<outer, t1, t2>>]
          [] kind = "exteriorLast" -> [points |-> five, faces |-> <<t1, t2, outer>>]
          [] kind = "exteriorOnly" -> [points |-> five, faces |-> <<outer>>]

PolygonKinds ==
    {"none", "segment", "triangle", "quad", "exteriorFirst", "exteriorLast", "exteriorOnly"}

\* the tiles: the corners, whether a clip is given, and the polygons the
\* clipping results in when it is
SheetTiles ==
    {[corners |-> Rectangle(o, w, h), hasClip |-> FALSE, clipped |-> <<>>] :
        o \in {Point(0, 0), Point(1, 2)}, w \in 1..MaxExtent, h \in 1..MaxExtent}
    \cup
    {[corners |-> Rectangle(o, w, h), hasClip |-> TRUE,
      clipped |-> [k \in DOMAIN kinds |-> ClippedPolygon(kinds[k], Rectangle(o, w, h))]] :
        o \in {Point(0, 0), Point(1, 2)}, w \in 1..MaxExtent, h \in 1..MaxExtent,
        kinds \in UNION {[1..n -> PolygonKinds] : n \in 0..MaxPolygons}}

NoSheetTile == [corners |-> <<>>, hasClip |-> FALSE, clipped |-> <<>>]

\* PolyfaceBuilder: a polyface is the sequence of the facets added, each with
\* its points and its UV parameters
Facet(points, params) == [points |-> points, params |-> params]

RECURSIVE Flatten(_)
Flatten(seqs) == IF seqs = <<>> THEN <<>> ELSE Head(seqs) \o Flatten(Tail(seqs))

\* createSheetTilePolyfaces that makes a facet of every face loop
System_createSheetTilePolyfaces_allFaces(corners, hasClip, clipped) ==
    LET sheetTileRange == Range3d_createArray(corners)
        width == sheetTileRange.high.x - sheetTileRange.low.x
        sheetTileOrigin == sheetTileRange.low
        Param(point) == [x |-> Frac(point.x - sheetTileOrigin.x, width),
                         y |-> Frac(point.y - sheetTileOrigin.y, width)]
        Params(points) == [k \in DOMAIN points |-> Param(points[k])]
        clippedPolygons == IF hasClip THEN clipped
                           ELSE <<[points |-> corners, faces |-> <<>>]>>
        FacetsOf(polygon) ==
            IF Len(polygon.points) < 3 THEN <<>>
            ELSE IF Len(polygon.points) \in {3, 4}
            THEN <<Facet(polygon.points, Params(polygon.points))>>
            ELSE [k \in DOMAIN polygon.faces |->
                    Facet(polygon.faces[k].nodes, Params(polygon.faces[k].nodes))]
    IN  IF clippedPolygons = <<>> THEN <<>>
        ELSE <<Flatten([k \in DOMAIN clippedPolygons |-> FacetsOf(clippedPolygons[k])])>>

\* System.createSheetTilePolyfaces: the list of polyfaces it returns.
\* sheetTileScale is 1 / width, so a coordinate times sheetTileScale is the
\* coordinate over width.
System_createSheetTilePolyfaces(corners, hasClip, clipped) ==
    LET sheetTileRange == Range3d_createArray(corners)
        width == sheetTileRange.high.x - sheetTileRange.low.x
        sheetTileOrigin == sheetTileRange.low
        Param(point) == [x |-> Frac(point.x - sheetTileOrigin.x, width),
                         y |-> Frac(point.y - sheetTileOrigin.y, width)]
        Params(points) == [k \in DOMAIN points |-> Param(points[k])]
        clippedPolygons == IF hasClip THEN clipped
                           ELSE <<[points |-> corners, faces |-> <<>>]>>
        Interior(faces) == SelectSeq(faces, LAMBDA f : ~f.exterior)
        FacetsOf(polygon) ==
            IF Len(polygon.points) < 3 THEN <<>>
            ELSE IF Len(polygon.points) = 3
            THEN <<Facet(polygon.points, Params(polygon.points))>>
            ELSE IF Len(polygon.points) = 4
            THEN <<Facet(polygon.points, Params(polygon.points))>>
            ELSE [k \in DOMAIN Interior(polygon.faces) |->
                    Facet(Interior(polygon.faces)[k].nodes,
                          Params(Interior(polygon.faces)[k].nodes))]
    IN  IF clippedPolygons = <<>> THEN <<>>
        ELSE <<Flatten([k \in DOMAIN clippedPolygons |-> FacetsOf(clippedPolygons[k])])>>

(***************************************************************************)
(* State                                                                   *)
(***************************************************************************)
(***************************************************************************)
(* AlphaSlider: a React component that follows the mouse through listeners *)
(* on window                                                               *)
(***************************************************************************)
\* how many AlphaSlider instances a run has
NumSliders == 2
Sliders == 1..NumSliders

\* clientWidth and clientHeight of the container; alpha is counted in steps
\* of 1 / ContainerSize
ContainerSize == 2
\* the alpha props a slider is mounted with: transparent and opaque
Alphas == {0, ContainerSize}
\* where a mouse event is, relative to the left and top of the container: on
\* the diagonal, before, in and after the container
PointerOffsets == (0 - 1)..(ContainerSize + 1)

\* an AlphaSlider that has not been mounted
AlphaSlider_new ==
    [status |-> "new", isHorizontal |-> FALSE, alpha |-> 0, hasOnAlphaChange |-> FALSE,
     container |-> FALSE]

\* a listener of window: the bound method fn of slider owner
Listener(type, owner, fn) == [type |-> type, owner |-> owner, fn |-> fn]

\* window.addEventListener: a listener that is registered is not registered again
Window_addEventListener(listeners, l) == listeners \cup {l}

\* window.removeEventListener
Window_removeEventListener(listeners, l) == listeners \ {l}

\* AlphaSlider._calculateChange for a mouse event at (left, top): the new alpha,
\* undefined when it is the alpha the slider has
AlphaSlider_calculateChange(left, top, isHorizontal, alpha) ==
    LET t == IF ~isHorizontal
             THEN (IF top < 0 THEN ContainerSize
                   ELSE IF top > ContainerSize THEN 0
                   ELSE ContainerSize - top)
             ELSE (IF left < 0 THEN 0
                   ELSE IF left > ContainerSize THEN ContainerSize
                   ELSE left)
    IN  [defined |-> alpha # t, t |-> IF alpha # t THEN t ELSE alpha]

\* AlphaSlider._onChange: whether props.onAlphaChange was called, and with what
AlphaSlider_onChange(slider, left, top) ==
    IF slider.container /\ slider.hasOnAlphaChange
    THEN LET change == AlphaSlider_calculateChange(left, top, slider.isHorizontal, slider.alpha)
         IN  [called |-> change.defined, alpha |-> change.t]
    ELSE [called |-> FALSE, alpha |-> slider.alpha]

\* _unbindEventListeners that forgets the mouseup listener
AlphaSlider_unbindEventListeners_keepMouseUp(listeners, s) ==
    Window_removeEventListener(listeners, Listener("mousemove", s, "_onChange"))

\* AlphaSlider._unbindEventListeners
AlphaSlider_unbindEventListeners(listeners, s) ==
    Window_removeEventListener(
        Window_removeEventListener(listeners, Listener("mousemove", s, "_onChange")),
        Listener("mouseup", s, "_onMouseUp"))

\* AlphaSlider._onMouseDown: _onChange, then the two listeners on window
AlphaSlider_onMouseDown(listeners, slider, s, left, top) ==
    [change |-> AlphaSlider_onChange(slider, left, top),
     listeners |-> Window_addEventListener(
                       Window_addEventListener(listeners, Listener("mousemove", s, "_onChange")),
                       Listener("mouseup", s, "_onMouseUp"))]

\* AlphaSlider._onMouseUp
AlphaSlider_onMouseUp(listeners, s) == AlphaSlider_unbindEventListeners(listeners, s)

\* AlphaSlider.componentWillUnmount
AlphaSlider_componentWillUnmount(listeners, s) == AlphaSlider_unbindEventListeners(listeners, s)

\* window dispatches a mouseup event: every listener registered for it runs
RECURSIVE Window_dispatchMouseUp(_, _)
Window_dispatchMouseUp(listeners, todo) ==
    IF todo = {} THEN listeners
    ELSE LET l == CHOOSE x \in todo : TRUE
         IN  Window_dispatchMouseUp(AlphaSlider_onMouseUp(listeners, l.owner), todo \ {l})

(***************************************************************************)
(* Tree: a React component that shows the nodes of its data provider       *)
(***************************************************************************)
\* the data providers of a run: two that implement ITreeDataProvider with an
\* onTreeNodeChanged event, and one that is a method
InterfaceProviders == {"interfaceProvider1", "interfaceProvider2"}
MethodProviders == {"methodProvider"}
DataProviders == InterfaceProviders \cup MethodProviders
NoProvider == "<none>"

\* how many root-node requests a run makes at most
MaxLoads == 3

\* a Tree that has not been mounted: model is the request for root nodes its
\* current model waits for, nodes the request whose nodes are on screen
Tree_new == [status |-> "new", dataProvider |-> NoProvider, model |-> 0, nodes |-> 0]

\* the Tree subscribes to the onTreeNodeChanged event of an interface provider
Tree_assignDataProviderListeners(events, provider) ==
    IF provider \in InterfaceProviders
    THEN [events EXCEPT ![provider] = BeEvent_addListener(@, Method("_onTreeNodeChanged"))]
    ELSE events

\* dropDataProviderListeners that leaves the subscription
Tree_dropDataProviderListeners_keep(events, provider) == events

\* the Tree unsubscribes from the event of an interface provider
Tree_dropDataProviderListeners(events, provider) ==
    IF provider \in InterfaceProviders
    THEN [events EXCEPT ![provider] = BeEvent_removeListener(@, Method("_onTreeNodeChanged"))]
    ELSE events

\* the Tree makes a model for a provider and asks the provider for its root
\* nodes: the request is pending until the promise of the provider resolves
Tree_createModel(loads, provider) ==
    Append(loads, [provider |-> provider, state |-> "pending"])

\* render(<Tree dataProvider=...>): mount
Tree_componentDidMount(t, loads, events, provider) ==
    [tree |-> [status |-> "mounted", dataProvider |-> provider,
               model |-> Len(loads) + 1, nodes |-> 0],
     loads |-> Tree_createModel(loads, provider),
     events |-> Tree_assignDataProviderListeners(events, provider)]

\* rerender with a dataProvider prop: a provider other than the current one
\* gets a new model, the listeners move to it, the nodes on screen go
Tree_componentDidUpdate(t, loads, events, provider) ==
    IF provider = t.dataProvider
    THEN [tree |-> t, loads |-> loads, events |-> events]
    ELSE [tree |-> [t EXCEPT !.dataProvider = provider, !.model = Len(loads) + 1, !.nodes = 0],
          loads |-> Tree_createModel(loads, provider),
          events |-> Tree_assignDataProviderListeners(
                         Tree_dropDataProviderListeners(events, t.dataProvider), provider)]

\* unmount
Tree_componentWillUnmount(t, loads, events) ==
    [tree |-> [t EXCEPT !.status = "gone", !.model = 0, !.nodes = 0],
     loads |-> loads,
     events |-> Tree_dropDataProviderListeners(events, t.dataProvider)]

\* a Tree that renders whatever root nodes arrive while it is mounted
Tree_onModelLoaded_any(t, load) ==
    IF t.status = "mounted"
    THEN [tree |-> [t EXCEPT !.nodes = load], rendered |-> TRUE]
    ELSE [tree |-> t, rendered |-> FALSE]

\* the root nodes of request `load` arrive: the Tree renders them if the
\* request is the one of its current model
Tree_onModelLoaded(t, load) ==
    IF t.status = "mounted" /\ t.model = load
    THEN [tree |-> [t EXCEPT !.nodes = load], rendered |-> TRUE]
    ELSE [tree |-> t, rendered |-> FALSE]

(***************************************************************************)
(* Tree in Extended selection mode over a delay-loading data provider      *)
(***************************************************************************)
\* the nodes of the provider in the order the Tree shows them: root nodes 0, 1
\* and 2, and a, b, c the children of 0, which is expanded; page size 1
VisibleOrder == <<"0", "a", "b", "c", "1", "2">>
TreeNodes == {VisibleOrder[i] : i \in DOMAIN VisibleOrder}
\* the pages getNodes answers with a promise that the run resolves later
DelayedNodes == {"b", "c"}
NoNode == "<none>"
PositionOf(n) == CHOOSE i \in DOMAIN VisibleOrder : VisibleOrder[i] = n

\* how many selection loads a run starts at most
MaxSelectionLoads == 2

\* the nodes between two nodes, both included
NodesBetween(n1, n2) ==
    {VisibleOrder[i] : i \in {j \in DOMAIN VisibleOrder :
        \/ PositionOf(n1) <= j /\ j <= PositionOf(n2)
        \/ PositionOf(n2) <= j /\ j <= PositionOf(n1)}}

\* a node is loaded if its page was answered at once or its promise has resolved
IsLoaded(pages, n) == IF n \in DelayedNodes THEN pages[n] = "resolved" ELSE TRUE

\* the data provider's getNodes for the pages a selection needs: a page that is
\* not loaded gets a promise, one promise per page, kept for later requests
DataProvider_getNodes(pages, wanted) ==
    [n \in DelayedNodes |-> IF n \in wanted /\ pages[n] = "idle" THEN "pending" ELSE pages[n]]

\* a selection load: the pages it waits for, how many have arrived, and how
\* often each callback was called for it
SelectionLoad(pages) ==
    [pages |-> pages, loaded |-> 0, state |-> "active",
     progress |-> 0, selected |-> 0, canceled |-> 0, finished |-> 0, late |-> 0]

\* the Tree calls onSelectionLoadProgress(loaded, total, cancel); cancelNow is
\* whether the listener calls cancel before it returns
Tree_reportProgress(load, cancelNow) ==
    LET l == [load EXCEPT !.progress = @ + 1]
    IN  IF cancelNow /\ l.loaded < Cardinality(l.pages)
        THEN [l EXCEPT !.state = "canceled", !.canceled = @ + 1]
        ELSE IF l.loaded = Cardinality(l.pages)
        THEN [l EXCEPT !.state = "finished", !.finished = @ + 1]
        ELSE l

\* an in-progress selection load is cancelled: onSelectionLoadCanceled; a load
\* that has finished or was cancelled before is left alone
Tree_cancelSelectionLoad(loads, i) ==
    IF loads[i].state = "active"
    THEN [loads EXCEPT ![i].state = "canceled", ![i].canceled = @ + 1]
    ELSE loads

\* the selection changes: the load in progress, if any, is cancelled
Tree_cancelPendingSelection(loads) ==
    IF loads = <<>> THEN loads ELSE Tree_cancelSelectionLoad(loads, Len(loads))

\* a click on a node: it becomes the selection and the anchor
Tree_onNodeClick(sel, node) ==
    [selection |-> {node}, anchor |-> node, pages |-> sel.pages,
     loads |-> Tree_cancelPendingSelection(sel.loads)]

\* a shift-click on a node: the loaded nodes from the anchor to it are selected
\* (onNodesSelected) and the pages in between that are not loaded are requested
Tree_onNodeShiftClick(sel, node, cancelNow) ==
    LET range == NodesBetween(sel.anchor, node)
        missing == {n \in range : ~IsLoaded(sel.pages, n)}
        loads == Tree_cancelPendingSelection(sel.loads)
    IN  [selection |-> {n \in range : IsLoaded(sel.pages, n)},
         anchor |-> sel.anchor,
         pages |-> DataProvider_getNodes(sel.pages, missing),
         loads |-> IF missing = {} THEN loads
                   ELSE Append(loads, Tree_reportProgress(
                            [SelectionLoad(missing) EXCEPT !.selected = 1], cancelNow))]

\* the selectedNodes prop changes
Tree_onSelectedNodesChanged(sel, selectedNodes) ==
    [selection |-> {n \in selectedNodes : IsLoaded(sel.pages, n)}, anchor |-> sel.anchor,
     pages |-> sel.pages, loads |-> Tree_cancelPendingSelection(sel.loads)]

\* a Tree that goes on with a load that was cancelled
Tree_onPageLoaded_anyLoad(sel, node, cancelNow) ==
    LET pages == [sel.pages EXCEPT ![node] = "resolved"]
        waits(i) == node \in sel.loads[i].pages /\ sel.loads[i].state # "finished"
    IN  [selection |-> IF \E i \in DOMAIN sel.loads : waits(i)
                       THEN sel.selection \cup {node} ELSE sel.selection,
         anchor |-> sel.anchor, pages |-> pages,
         loads |-> [i \in DOMAIN sel.loads |->
                      IF waits(i)
                      THEN [sel.loads[i] EXCEPT !.loaded = @ + 1, !.selected = @ + 1,
                                                !.progress = @ + 1]
                      ELSE sel.loads[i]]]

\* the promise of a page resolves: the node is loaded; the load in progress that
\* waits for it selects it (onNodesSelected) and reports progress and, with its
\* last page, onSelectionLoadFinished; a load that was cancelled does nothing
Tree_onPageLoaded(sel, node, cancelNow) ==
    LET pages == [sel.pages EXCEPT ![node] = "resolved"]
        waits(i) == node \in sel.loads[i].pages /\ sel.loads[i].state = "active"
    IN  [selection |-> IF \E i \in DOMAIN sel.loads : waits(i)
                       THEN sel.selection \cup {node} ELSE sel.selection,
         anchor |-> sel.anchor, pages |-> pages,
         loads |-> [i \in DOMAIN sel.loads |->
                      IF waits(i)
                      THEN Tree_reportProgress(
                               [sel.loads[i] EXCEPT !.loaded = @ + 1, !.selected = @ + 1],
                               cancelNow)
                      ELSE IF node \in sel.loads[i].pages /\ sel.loads[i].state = "canceled"
                      THEN [sel.loads[i] EXCEPT !.late = @ + 1]
                      ELSE sel.loads[i]]]

VARIABLES
    idMap,        \* an IdMap a caller constructed: its four maps
    gen,          \* per kind and key: how many objects `new` has constructed for it
    numBuilt,     \* how many objects have been constructed in all
    released,     \* per resource: how often dispose() was called on it (capped at 2)
    lastCall,     \* the last IdMap call: operation, arguments, what it returned and built
    hist,         \* per key: the instances calls returned and how many were built
    disposeRun,   \* length of the current run of consecutive dispose() calls (capped at 2)
    resourceCache, \* System.resourceCache: IModelConnection -> identity of its IdMap
    idMaps,       \* the IdMap objects the System constructed: identity -> the four maps
    disposedMaps, \* the IdMap objects dispose() was called on
    evicted,      \* per connection: the IdMaps its close events removed from the cache
    lastSys,      \* the last System call or close event and what it did
    onClose,      \* IModelConnection.onClose: the listeners registered on the event
    sysDisposed,  \* System.dispose() has run
    textureBindings, \* System._textureBindings: table index -> texture or undefined
    lastBind,     \* the last bind or disposeTexture call: arguments, the table entry
                  \* it found and the driver calls it issued
    prevBind,     \* the call before it
    curVertexAttribStates,  \* System._curVertexAttribStates
    nextVertexAttribStates, \* System._nextVertexAttribStates
    instancingExtension,    \* undefined # System._instancingExtension
    requested,    \* per slot: what enableVertexAttribArray asked for and no update has
                  \* taken up yet
    vaCall,       \* the last enableVertexAttribArray call and the driver calls it issued
    lastUpdate,   \* the last updateVertexAttribArrays call: the arrays and the requests
                  \* it found, the driver calls it issued, whether it threw
    prevUpdate,   \* the update call before it
    driverAttribs, \* the vertex attribute arrays of the WebGL context: per slot whether
                  \* the array is enabled and its divisor
    gl,           \* the WebGL context handed to Capabilities.create
    probe,        \* what Capabilities.create returned and the extensions it enabled
    depthCall,    \* the last System.createDepthBuffer call on the probed capabilities
    system,       \* the last System.create call: its inputs and what it did
    textureStats, \* a TextureStats: its set of allocated handles and its maximum size
    handles,      \* width and height of each texture handle that has been made
    statCall,     \* the last call of the monitor: the handle, its state before, the outcome
    sheetTile,    \* the tile createSheetTilePolyfaces is called for
    sheetTilePolys, \* whether it has been called, and the polyfaces it returned
    alphaSliders, \* the AlphaSlider instances: whether mounted, and their props
    windowListeners, \* the listeners registered on window
    alphaEvent,   \* the last event an AlphaSlider or window handled, the listeners the
                  \* slider had before it, and the onAlphaChange call it made, if any
    tree,         \* the Tree: whether mounted, its dataProvider prop, its model, its nodes
    treeLoads,    \* the requests for root nodes made so far: provider, pending or resolved
    treeNodeChanged, \* per interface provider: the listeners of its onTreeNodeChanged
    treeEvent,    \* the last thing that happened to the Tree
    treeSelection, \* the Tree in Extended selection mode: the selected nodes, the anchor
                  \* of range selection, the pages of the provider, the selection loads
    selectionEvent, \* the last click, prop change, cancel call or page of that Tree
    statHist      \* per handle whether it is live; whether the calls so far were in
                  \* order (created once, disposed at most once afterwards); whether
                  \* an assertion has failed

idMapVars == <<idMap, lastCall, hist, disposeRun>>
sysVars == <<resourceCache, idMaps, disposedMaps, evicted, lastSys>>
lifeVars == <<onClose, sysDisposed>>
texVars == <<textureBindings, lastBind, prevBind>>
attribVars == <<curVertexAttribStates, nextVertexAttribStates, instancingExtension,
                requested, vaCall, lastUpdate, prevUpdate, driverAttribs>>
capVars == <<gl, probe, depthCall, system>>
statVars == <<textureStats, handles, statCall, statHist>>
tileVars == <<sheetTile, sheetTilePolys>>
alphaVars == <<alphaSliders, windowListeners, alphaEvent>>
treeVars == <<tree, treeLoads, treeNodeChanged, treeEvent>>
selectionVars == <<treeSelection, selectionEvent>>
uiVars == <<alphaVars, treeVars, selectionVars>>
cacheVars == <<gen, numBuilt, released, idMapVars, sysVars, lifeVars>>
renderVars == <<cacheVars, texVars, attribVars, capVars, statVars, tileVars>>
deviceVars == <<textureBindings, lastBind, prevBind,
                curVertexAttribStates, nextVertexAttribStates, instancingExtension,
                requested, vaCall, lastUpdate, prevUpdate, driverAttribs,
                gl, probe, depthCall, system,
                textureStats, handles, statCall, statHist, sheetTile, sheetTilePolys,
                alphaSliders, windowListeners, alphaEvent,
                tree, treeLoads, treeNodeChanged, treeEvent,
                treeSelection, selectionEvent>>
vars == <<idMap, gen, numBuilt, released, lastCall, hist, disposeRun,
          resourceCache, idMaps, disposedMaps, evicted, lastSys, onClose, sysDisposed,
          textureBindings, lastBind, prevBind,
          curVertexAttribStates, nextVertexAttribStates, instancingExtension,
          requested, vaCall, lastUpdate, prevUpdate, driverAttribs,
                gl, probe, depthCall, system,
          textureStats, handles, statCall, statHist, sheetTile, sheetTilePolys,
                alphaSliders, windowListeners, alphaEvent,
                tree, treeLoads, treeNodeChanged, treeEvent,
                treeSelection, selectionEvent>>

Min(a, b) == IF a < b THEN a ELSE b

SymbVals == {[mode |-> s.mode, tint |-> s.tint] : s \in SymbObjs}
SymbVal(s) == [mode |-> s.mode, tint |-> s.tint]

\* object identity: the n-th object constructed for a kind and a key is a new object
Slots ==
    ({"material", "texture"} \X KeyOpt)
        \cup ({"gradient"} \X {ToString(s.tint) : s \in SymbObjs})
        \cup ({"clipVolume"} \X {ToString(c.ref) : c \in ClipObjs})

Fresh(kind, slot) == [kind |-> kind, slot |-> slot, n |-> gen[<<kind, slot>>] + 1]

NoCall ==
    [op |-> "new", key |-> UndefinedKey, ref |-> 0, result |-> NoResource, built |-> 0,
     attempted |-> FALSE, failed |-> FALSE]

\* created is FALSE when the factory the call would use (TextureHandle.createFor...,
\* ClipMaskVolume.create and ClipPlanesVolume.create) returns undefined
Call(op, key, ref, r, created) ==
    [op |-> op, key |-> key, ref |-> ref, result |-> r.result, built |-> r.built,
     attempted |-> r.attempted, failed |-> r.attempted /\ ~created]

\* results that are resources (undefined is none)
Got(r) == {r.result} \ {NoResource}

HistInit ==
    [matRet |-> [k \in Keys |-> {}], matBuilt |-> [k \in Keys |-> 0],
     texRet |-> [k \in Keys |-> {}], texBuilt |-> [k \in Keys |-> 0],
     gradRet |-> [v \in SymbVals |-> {}], gradBuilt |-> [v \in SymbVals |-> 0],
     clipRet |-> [c \in 1..NumClipRefs |-> {}], clipBuilt |-> [c \in 1..NumClipRefs |-> 0],
     cubeKeys |-> {}, disposed |-> FALSE]

\* the history is kept from construction to the first dispose()
Keep(h) == IF hist.disposed THEN hist ELSE h

NoSysCall ==
    [op |-> "new", conn |-> UndefinedConnection, idMap |-> NoIdMap, created |-> FALSE,
     result |-> NoResource, built |-> 0]

NoBind ==
    [op |-> "new", unit |-> TextureUnit_Zero, texture |-> UndefinedTexture,
     held |-> UndefinedTexture, calls |-> <<>>]

NoAttribCall == [op |-> "new", id |-> 0, instanced |-> FALSE, calls |-> <<>>]

NoUpdate ==
    [done |-> FALSE, cur |-> VertexAttribStates_new, next |-> VertexAttribStates_new,
     requested |-> VertexAttribStates_new, calls |-> <<>>, threw |-> FALSE]
NoPrevUpdate == [done |-> FALSE, requested |-> VertexAttribStates_new, threw |-> FALSE]

\* a context of which nothing is asked before Capabilities.create runs
NoContext == Context(FALSE, [x \in Extensions |-> "absent"], 4, 5, {})
NoProbe == [done |-> FALSE, created |-> FALSE, caps |-> Capabilities_init(NoContext).caps,
            getExtensionCalls |-> {}]

NoTreeEvent == [type |-> "none", provider |-> NoProvider, load |-> 0, rendered |-> FALSE,
                was |-> Tree_new]
NoAlphaEvent == [type |-> "none", slider |-> 0, had |-> {}, called |-> FALSE, alpha |-> 0]
NoStatCall == [op |-> "new", tex |-> UndefinedTexture, was |-> "none", failed |-> FALSE]

NoSystem ==
    [done |-> FALSE, threw |-> FALSE, error |-> "", hasContext |-> FALSE, instance |-> FALSE]

\* state after `new IdMap()` and of the fields the System constructor sets, but
\* for the instancing extension, the context and the subscription to onClose
InitState ==
    /\ idMap = IdMap_new
    /\ gen = [s \in Slots |-> 0]
    /\ numBuilt = 0
    /\ released = [x \in {} |-> 0]
    /\ lastCall = NoCall
    /\ hist = HistInit
    /\ disposeRun = 0
    /\ resourceCache = [c \in {} |-> NoIdMap]
    /\ idMaps = [i \in {} |-> IdMap_new]
    /\ disposedMaps = {}
    /\ evicted = [c \in Connections |-> {}]
    /\ lastSys = NoSysCall
    /\ sysDisposed = FALSE
    /\ textureBindings = TextureBindings_new
    /\ lastBind = NoBind
    /\ prevBind = NoBind
    /\ curVertexAttribStates = VertexAttribStates_new
    /\ nextVertexAttribStates = VertexAttribStates_new
    /\ requested = VertexAttribStates_new
    /\ vaCall = NoAttribCall
    /\ lastUpdate = NoUpdate
    /\ prevUpdate = NoPrevUpdate
    /\ driverAttribs = DriverAttribs_new
    /\ probe = NoProbe
    /\ depthCall = [done |-> FALSE, branch |-> "", dtExt |-> UndefinedObject, failed |-> FALSE]
    /\ system = NoSystem
    /\ textureStats = TextureStats_new
    /\ handles = [t \in Textures |-> <<0, 0>>]
    /\ statCall = NoStatCall
    /\ statHist = [life |-> [t \in Textures |-> "none"], ordered |-> TRUE, failed |-> FALSE]
    /\ sheetTilePolys = [done |-> FALSE, polys |-> <<>>]
    /\ alphaSliders = [s \in Sliders |-> AlphaSlider_new]
    /\ windowListeners = {}
    /\ alphaEvent = NoAlphaEvent
    /\ tree = Tree_new
    /\ treeLoads = <<>>
    /\ treeNodeChanged = [p \in InterfaceProviders |-> BeEvent_new]
    /\ treeEvent = NoTreeEvent
    /\ treeSelection = [selection |-> {}, anchor |-> NoNode,
                        pages |-> [n \in DelayedNodes |-> "idle"], loads |-> <<>>]
    /\ selectionEvent = [type |-> "none", node |-> NoNode, load |-> 0]

\* state after `new IdMap()` and after the System constructor, but for the
\* instancing extension and the context
InitSystem ==
    /\ InitState
    /\ onClose = System_constructor(BeEvent_new).onClose
    /\ sheetTile = NoSheetTile

\* a System with the instancing extension, before any context is probed
Init ==
    /\ InitSystem
    /\ instancingExtension = TRUE
    /\ gl = NoContext

\* a System with or without the instancing extension
InitAttribs ==
    /\ InitSystem
    /\ instancingExtension \in BOOLEAN
    /\ gl = NoContext

\* any context, before Capabilities.create(gl)
InitCapabilities ==
    /\ InitSystem
    /\ instancingExtension = TRUE
    /\ gl \in Contexts({"absent", "listed", "enabled"})

\* no System yet: a context whose getExtension enables every extension it
\* lists, and nobody listening to IModelConnection.onClose
InitCreate ==
    /\ InitState
    /\ onClose = BeEvent_new
    /\ instancingExtension = TRUE
    /\ gl \in Contexts({"absent", "enabled"})
    /\ sheetTile = NoSheetTile

\* a System, and a tile for createSheetTilePolyfaces
InitSheetTiles ==
    /\ InitState
    /\ onClose = System_constructor(BeEvent_new).onClose
    /\ instancingExtension = TRUE
    /\ gl = NoContext
    /\ sheetTile \in SheetTiles

\* a call that constructs an object takes one of the MaxRes objects of the run
Build(r, kind, slot) ==
    /\ r.built = 1 => numBuilt < MaxRes
    /\ numBuilt' = numBuilt + r.built
    /\ gen' = [gen EXCEPT ![<<kind, slot>>] = @ + r.built]

GetMaterial ==
    \E key \in KeyOpt :
        LET r == IdMap_getMaterial(idMap, key, Fresh("material", key))
        IN  /\ Build(r, "material", key)
            /\ idMap' = r.idMap
            /\ lastCall' = Call("getMaterial", key, 0, r, TRUE)
            /\ hist' = IF Truthy(key)
                       THEN Keep([hist EXCEPT !.matRet[key] = @ \cup Got(r),
                                              !.matBuilt[key] = @ + r.built])
                       ELSE hist
            /\ disposeRun' = 0
            /\ UNCHANGED <<released, sysVars, lifeVars, deviceVars>>

GetTexture ==
    \E key \in KeyOpt, handle \in BOOLEAN :
        LET r == IdMap_getTexture(idMap, key, handle, Fresh("texture", key))
        IN  /\ Build(r, "texture", key)
            /\ idMap' = r.idMap
            /\ lastCall' = Call("getTexture", key, 0, r, handle)
            /\ hist' = IF key \in Keys
                       THEN Keep([hist EXCEPT !.texRet[key] = @ \cup Got(r),
                                              !.texBuilt[key] = @ + r.built])
                       ELSE hist
            /\ disposeRun' = 0
            /\ UNCHANGED <<released, sysVars, lifeVars, deviceVars>>

GetTextureFromImage ==
    \E key \in KeyOpt, handle \in BOOLEAN :
        LET r == IdMap_getTextureFromImage(idMap, key, handle, Fresh("texture", key))
        IN  /\ Build(r, "texture", key)
            /\ idMap' = r.idMap
            /\ lastCall' = Call("getTextureFromImage", key, 0, r, handle)
            /\ hist' = IF key \in Keys
                       THEN Keep([hist EXCEPT !.texRet[key] = @ \cup Got(r),
                                              !.texBuilt[key] = @ + r.built])
                       ELSE hist
            /\ disposeRun' = 0
            /\ UNCHANGED <<released, sysVars, lifeVars, deviceVars>>

GetTextureFromCubeImages ==
    \E key \in KeyOpt, handle \in BOOLEAN :
        LET r == IdMap_getTextureFromCubeImages(idMap, key, handle, Fresh("texture", key))
        IN  /\ Build(r, "texture", key)
            /\ idMap' = r.idMap
            /\ lastCall' = Call("getTextureFromCubeImages", key, 0, r, handle)
            /\ hist' = IF Truthy(key) /\ r.built = 1
                       THEN Keep([hist EXCEPT !.cubeKeys = @ \cup {key}])
                       ELSE hist
            /\ disposeRun' = 0
            /\ UNCHANGED <<released, sysVars, lifeVars, deviceVars>>

GetGradient ==
    \E grad \in SymbObjs, handle \in BOOLEAN :
        LET r == IdMap_getGradient(idMap, grad, handle, Fresh("gradient", ToString(grad.tint)))
        IN  /\ Build(r, "gradient", ToString(grad.tint))
            /\ idMap' = r.idMap
            /\ lastCall' = Call("getGradient", UndefinedKey, grad.ref, r, handle)
            /\ hist' = Keep([hist EXCEPT !.gradRet[SymbVal(grad)] = @ \cup Got(r),
                                          !.gradBuilt[SymbVal(grad)] = @ + r.built])
            /\ disposeRun' = 0
            /\ UNCHANGED <<released, sysVars, lifeVars, deviceVars>>

GetClipVolume ==
    \E clipVector \in ClipObjs, mask \in BOOLEAN, planes \in BOOLEAN :
        LET r == IdMap_getClipVolume(idMap, clipVector, mask, planes,
                                     Fresh("clipVolume", ToString(clipVector.ref)))
        IN  /\ Build(r, "clipVolume", ToString(clipVector.ref))
            /\ idMap' = r.idMap
            /\ lastCall' = Call("getClipVolume", UndefinedKey, clipVector.ref, r, mask \/ planes)
                            @@ [kind |-> r.kind, tried |-> r.tried,
                                maskVolume |-> r.attempted /\ mask]
            /\ hist' = Keep([hist EXCEPT !.clipRet[clipVector.ref] = @ \cup Got(r),
                                          !.clipBuilt[clipVector.ref] = @ + r.built])
            /\ disposeRun' = 0
            /\ UNCHANGED <<released, sysVars, lifeVars, deviceVars>>

\* dispose(x) of every resource in `disposed`
Release(disposed) ==
    [x \in DOMAIN released \cup disposed |->
        IF x \in disposed
        THEN Min((IF x \in DOMAIN released THEN released[x] ELSE 0) + 1, 2)
        ELSE released[x]]

Dispose ==
    LET r == IdMap_dispose(idMap)
    IN  /\ idMap' = r.idMap
        /\ released' = Release(r.disposed)
        /\ lastCall' = [NoCall EXCEPT !.op = "dispose"]
        /\ hist' = [HistInit EXCEPT !.disposed = TRUE]
        /\ disposeRun' = Min(disposeRun + 1, 2)
        /\ UNCHANGED <<gen, numBuilt, sysVars, lifeVars, deviceVars>>

Next ==
    \/ GetMaterial
    \/ GetTexture
    \/ GetTextureFromImage
    \/ GetTextureFromCubeImages
    \/ GetGradient
    \/ GetClipVolume
    \/ Dispose

Spec == Init /\ [][Next]_vars

(***************************************************************************)
(* The System and its resource cache (specification SpecSystem)            *)
(***************************************************************************)
\* keys, symbols and clip vectors of the requests made through the System
SysKeys == {"a"}
SysSymbObjs == {s \in SymbObjs : s.ref = 1}
SysClipObjs == {c \in ClipObjs : c.ref = 1}

\* identity of the IdMap the next `new IdMap()` constructs
FreshMap == Cardinality(DOMAIN idMaps) + 1

SysCall(op, imodel, r) ==
    [op |-> op, conn |-> imodel, idMap |-> r.idMap, created |-> r.created,
     result |-> r.result, built |-> r.built]

\* a served request: r is the result of the System operation
Serve(op, imodel, r, kind, slot) ==
    /\ r.created => Cardinality(DOMAIN idMaps) < MaxMaps
    /\ Build(r, kind, slot)
    /\ resourceCache' = r.resourceCache
    /\ idMaps' = r.idMaps
    /\ lastSys' = SysCall(op, imodel, r)
    /\ UNCHANGED <<released, disposedMaps, evicted, idMapVars, lifeVars, deviceVars>>

CreateIModelMap ==
    \E imodel \in Connections :
        LET r == System_createIModelMap(resourceCache, idMaps, imodel, FreshMap)
        IN  /\ r.created => Cardinality(DOMAIN idMaps) < MaxMaps
            /\ resourceCache' = r.resourceCache
            /\ idMaps' = r.idMaps
            /\ lastSys' = [NoSysCall EXCEPT !.op = "createIModelMap", !.conn = imodel,
                                            !.idMap = r.idMap, !.created = r.created]
            /\ UNCHANGED <<gen, numBuilt, released, disposedMaps, evicted, idMapVars, lifeVars, deviceVars>>

CreateMaterial ==
    \E imodel \in Connections, key \in SysKeys :
        Serve("createMaterial", imodel,
              System_createMaterial(resourceCache, idMaps, key, imodel, FreshMap,
                                    Fresh("material", key)),
              "material", key)

CreateTextureFromImageBuffer ==
    \E imodel \in Connections, key \in SysKeys, handle \in BOOLEAN :
        Serve("createTextureFromImageBuffer", imodel,
              System_createTextureFromImageBuffer(resourceCache, idMaps, imodel, key, handle,
                                                  FreshMap, Fresh("texture", key)),
              "texture", key)

CreateTextureFromImage ==
    \E imodel \in Connections \cup {UndefinedConnection}, key \in SysKeys, handle \in BOOLEAN :
        Serve("createTextureFromImage", imodel,
              System_createTextureFromImage(resourceCache, idMaps, imodel, key, handle,
                                            FreshMap, Fresh("texture", key)),
              "texture", key)

CreateTextureFromCubeImages ==
    \E imodel \in Connections, key \in SysKeys, handle \in BOOLEAN :
        Serve("createTextureFromCubeImages", imodel,
              System_createTextureFromCubeImages(resourceCache, idMaps, imodel, key, handle,
                                                 FreshMap, Fresh("texture", key)),
              "texture", key)

GetGradientTexture ==
    \E imodel \in Connections, symb \in SysSymbObjs, handle \in BOOLEAN :
        Serve("getGradientTexture", imodel,
              System_getGradientTexture(resourceCache, idMaps, symb, imodel, handle,
                                        FreshMap, Fresh("gradient", ToString(symb.tint))),
              "gradient", ToString(symb.tint))

SystemGetClipVolume ==
    \E imodel \in Connections, clipVector \in SysClipObjs, mask \in BOOLEAN, planes \in BOOLEAN :
        Serve("getClipVolume", imodel,
              System_getClipVolume(resourceCache, idMaps, clipVector, imodel, mask, planes,
                                   FreshMap, Fresh("clipVolume", ToString(clipVector.ref))),
              "clipVolume", ToString(clipVector.ref))

\* IModelConnection.onClose.raiseEvent(imodel): the listener the System
\* constructor registered runs removeIModelMap(imodel)
CloseConnection ==
    \E imodel \in Connections :
        LET r == System_removeIModelMap(resourceCache, idMaps, imodel)
        IN  /\ RemoveIModelMapListeners(onClose) # {}
            /\ resourceCache' = r.resourceCache
            /\ idMaps' = r.idMaps
            /\ released' = Release(r.disposed)
            /\ disposedMaps' = disposedMaps \cup ({r.idMap} \ {NoIdMap})
            /\ evicted' = [evicted EXCEPT ![imodel] = @ \cup ({r.idMap} \ {NoIdMap})]
            /\ lastSys' = [NoSysCall EXCEPT !.op = "close", !.conn = imodel,
                                            !.idMap = r.idMap]
            /\ UNCHANGED <<gen, numBuilt, idMapVars, lifeVars, deviceVars>>

SysNext ==
    \/ CreateIModelMap
    \/ CreateMaterial
    \/ CreateTextureFromImageBuffer
    \/ CreateTextureFromImage
    \/ CreateTextureFromCubeImages
    \/ GetGradientTexture
    \/ SystemGetClipVolume
    \/ CloseConnection

SpecSystem == Init /\ [][SysNext]_vars

(***************************************************************************)
(* Lookups in the resource cache (specification SpecLookup)                *)
(***************************************************************************)
FindMaterial ==
    \E imodel \in Connections, key \in SysKeys :
        Serve("findMaterial", imodel,
              System_findMaterial(resourceCache, idMaps, key, imodel), "material", key)

FindTexture ==
    \E imodel \in Connections, key \in SysKeys :
        Serve("findTexture", imodel,
              System_findTexture(resourceCache, idMaps, key, imodel), "texture", key)

LookupNext ==
    \/ CreateMaterial
    \/ CreateTextureFromImageBuffer
    \/ FindMaterial
    \/ FindTexture
    \/ CloseConnection

SpecLookup == Init /\ [][LookupNext]_vars

(***************************************************************************)
(* The System from construction to dispose() and after (specification      *)
(* SpecLifecycle)                                                          *)
(***************************************************************************)
SystemDispose ==
    LET r == System_dispose(resourceCache, idMaps, onClose)
    IN  /\ resourceCache' = r.resourceCache
        /\ idMaps' = r.idMaps
        /\ released' = Release(r.disposed)
        /\ disposedMaps' = disposedMaps \cup r.disposedMaps
        /\ onClose' = r.onClose
        /\ sysDisposed' = TRUE
        /\ lastSys' = [NoSysCall EXCEPT !.op = "dispose"]
        /\ UNCHANGED <<gen, numBuilt, evicted, idMapVars, deviceVars>>

LifecycleNext ==
    \/ CreateIModelMap
    \/ CreateMaterial
    \/ CreateTextureFromImageBuffer
    \/ CloseConnection
    \/ SystemDispose

SpecLifecycle == Init /\ [][LifecycleNext]_vars

(***************************************************************************)
(* The texture-unit binding table (specification SpecTextures)             *)
(***************************************************************************)
\* a bind or disposeTexture call: r is what the System operation did
Bound(op, unit, texture, r) ==
    /\ textureBindings' = r.textureBindings
    /\ lastBind' = [op |-> op, unit |-> unit, texture |-> texture,
                    held |-> textureBindings[unit - TextureUnit_Zero], calls |-> r.calls]
    /\ prevBind' = lastBind
    /\ UNCHANGED <<uiVars, cacheVars, attribVars, capVars, statVars, tileVars>>

BindTexture2d ==
    \E unit \in TextureUnits, texture \in TextureBindings :
        Bound("bindTexture2d", unit, texture,
              System_bindTexture2d(textureBindings, unit, texture))

BindTextureCubeMap ==
    \E unit \in TextureUnits, texture \in TextureBindings :
        Bound("bindTextureCubeMap", unit, texture,
              System_bindTextureCubeMap(textureBindings, unit, texture))

DisposeTexture ==
    \E texture \in Textures :
        Bound("disposeTexture", TextureUnit_Zero, texture,
              System_disposeTexture(textureBindings, texture))

TexturesNext ==
    \/ BindTexture2d
    \/ BindTextureCubeMap
    \/ DisposeTexture

SpecTextures == Init /\ [][TexturesNext]_vars

(***************************************************************************)
(* The vertex attribute arrays (specification SpecAttribs)                 *)
(***************************************************************************)
EnableVertexAttribArray ==
    \E id \in AttribSlots, instanced \in BOOLEAN :
        LET r == System_enableVertexAttribArray(curVertexAttribStates,
                                                nextVertexAttribStates, id, instanced)
        IN  /\ curVertexAttribStates' = r.cur
            /\ nextVertexAttribStates' = r.next
            /\ requested' = [requested EXCEPT
                                ![id] = IF instanced THEN InstancedEnabled ELSE Enabled]
            /\ vaCall' = [op |-> "enableVertexAttribArray", id |-> id,
                          instanced |-> instanced, calls |-> r.calls]
            /\ driverAttribs' = Driver_apply(driverAttribs, r.calls)
            /\ UNCHANGED <<uiVars, instancingExtension, lastUpdate, prevUpdate,
                           cacheVars, texVars, capVars, statVars, tileVars>>

UpdateVertexAttribArrays ==
    LET r == System_updateVertexAttribArrays(curVertexAttribStates, nextVertexAttribStates,
                                             instancingExtension)
    IN  /\ curVertexAttribStates' = r.cur
        /\ nextVertexAttribStates' = r.next
        /\ requested' = [i \in AttribSlots |->
                            IF BitAnd(Enabled, r.next[i]) # 0 THEN requested[i] ELSE Disabled]
        /\ vaCall' = [NoAttribCall EXCEPT !.op = "updateVertexAttribArrays",
                                          !.calls = r.calls]
        /\ lastUpdate' = [done |-> TRUE, cur |-> curVertexAttribStates,
                          next |-> nextVertexAttribStates, requested |-> requested,
                          calls |-> r.calls, threw |-> r.threw]
        /\ prevUpdate' = [done |-> lastUpdate.done, requested |-> lastUpdate.requested,
                          threw |-> lastUpdate.threw]
        /\ driverAttribs' = Driver_apply(driverAttribs, r.calls)
        /\ UNCHANGED <<uiVars, instancingExtension, cacheVars, texVars, capVars, statVars, tileVars>>

AttribsNext ==
    \/ EnableVertexAttribArray
    \/ UpdateVertexAttribArrays

SpecAttribs == InitAttribs /\ [][AttribsNext]_vars

(***************************************************************************)
(* The probe of a context (specification SpecCapabilities)                 *)
(***************************************************************************)
CapabilitiesCreate ==
    LET r == Capabilities_create(gl)
    IN  /\ ~probe.done
        /\ probe' = [done |-> TRUE, created |-> r.created, caps |-> r.caps,
                     getExtensionCalls |-> r.getExtensionCalls]
        /\ UNCHANGED <<uiVars, gl, depthCall, system, cacheVars, texVars, attribVars, statVars, tileVars>>

\* createDepthBuffer on the System that System.create made of the capabilities
CreateDepthBuffer ==
    LET r == System_createDepthBuffer(probe.caps)
    IN  /\ probe.done /\ probe.created
        /\ ~depthCall.done
        /\ depthCall' = [done |-> TRUE, branch |-> r.branch, dtExt |-> r.dtExt,
                         failed |-> r.failed]
        /\ UNCHANGED <<uiVars, gl, probe, system, cacheVars, texVars, attribVars, statVars, tileVars>>

CapabilitiesNext ==
    \/ CapabilitiesCreate
    \/ CreateDepthBuffer

SpecCapabilities == InitCapabilities /\ [][CapabilitiesNext]_vars

(***************************************************************************)
(* The texture monitor (specification SpecTextureStats)                    *)
(***************************************************************************)
\* TextureHandle notifies the monitor of a handle it made: a handle keeps the
\* width and height it was first made with
OnTextureCreated ==
    \E tex \in Textures, dim \in TextureDims :
        LET dims == IF statHist.life[tex] = "none" THEN [handles EXCEPT ![tex] = dim]
                    ELSE handles
            r == TextureStats_onTextureCreated(textureStats, tex, dims)
        IN  /\ textureStats' = r.stats
            /\ handles' = dims
            /\ statCall' = [op |-> "onTextureCreated", tex |-> tex,
                            was |-> statHist.life[tex], failed |-> r.failed]
            /\ statHist' = [life |-> [statHist.life EXCEPT ![tex] = "live"],
                            ordered |-> statHist.ordered /\ statHist.life[tex] = "none",
                            failed |-> statHist.failed \/ r.failed]
            /\ UNCHANGED <<uiVars, tileVars, cacheVars, texVars, attribVars, capVars>>

OnTextureDisposed ==
    \E tex \in Textures :
        LET r == TextureStats_onTextureDisposed(textureStats, tex, handles)
        IN  /\ textureStats' = r.stats
            /\ statCall' = [op |-> "onTextureDisposed", tex |-> tex,
                            was |-> statHist.life[tex], failed |-> r.failed]
            /\ statHist' = [life |-> [statHist.life EXCEPT
                                         ![tex] = IF @ = "live" THEN "gone" ELSE @],
                            ordered |-> statHist.ordered /\ statHist.life[tex] = "live",
                            failed |-> statHist.failed \/ r.failed]
            /\ UNCHANGED <<uiVars, handles, tileVars, cacheVars, texVars, attribVars, capVars>>

TextureStatsNext ==
    \/ OnTextureCreated
    \/ OnTextureDisposed

SpecTextureStats == Init /\ [][TextureStatsNext]_vars

(***************************************************************************)
(* Sheet tiles (specification SpecSheetTiles)                              *)
(***************************************************************************)
CreateSheetTilePolyfaces ==
    /\ ~sheetTilePolys.done
    /\ sheetTilePolys' =
          [done |-> TRUE,
           polys |-> System_createSheetTilePolyfaces(sheetTile.corners, sheetTile.hasClip,
                                                     sheetTile.clipped)]
    /\ UNCHANGED <<uiVars, sheetTile, statVars, cacheVars, texVars, attribVars, capVars>>

SpecSheetTiles == InitSheetTiles /\ [][CreateSheetTilePolyfaces]_vars

(***************************************************************************)
(* System.create (specification SpecCreate)                                *)
(***************************************************************************)
SystemCreate ==
    \E hasCanvas, webgl, experimental \in BOOLEAN :
        LET r == System_create(gl, hasCanvas, webgl, experimental, onClose)
        IN  /\ ~system.done
            /\ system' = [done |-> TRUE, threw |-> r.threw, error |-> r.error,
                          hasContext |-> r.hasContext, instance |-> r.instance]
            /\ probe' = IF r.probed
                        THEN [done |-> TRUE, created |-> r.capabilities.created,
                              caps |-> r.capabilities.caps,
                              getExtensionCalls |-> r.capabilities.getExtensionCalls]
                        ELSE probe
            /\ onClose' = r.onClose
            /\ UNCHANGED <<uiVars, gl, depthCall, gen, numBuilt, released, idMapVars, sysVars,
                           sysDisposed, texVars, attribVars, statVars, tileVars>>

SpecCreate == InitCreate /\ [][SystemCreate]_vars

(***************************************************************************)
(* AlphaSlider instances and the window (specification SpecAlphaSlider)    *)
(***************************************************************************)
\* the listeners of window that slider s registered
OwnListeners(listeners, s) == {l \in listeners : l.owner = s}

AlphaEvent(type, s, change) ==
    [type |-> type, slider |-> s, had |-> OwnListeners(windowListeners, s),
     called |-> change.called, alpha |-> IF change.called THEN change.alpha ELSE 0]

NoChange == [called |-> FALSE, alpha |-> 0]

\* React mounts an AlphaSlider with its props and sets the ref of the container
AlphaSliderMount ==
    \E s \in Sliders, isHorizontal \in BOOLEAN, alpha \in Alphas, hasOnAlphaChange \in BOOLEAN :
        /\ alphaSliders[s].status = "new"
        /\ alphaSliders' = [alphaSliders EXCEPT ![s] =
              [status |-> "mounted", isHorizontal |-> isHorizontal, alpha |-> alpha,
               hasOnAlphaChange |-> hasOnAlphaChange, container |-> TRUE]]
        /\ alphaEvent' = AlphaEvent("mount", s, NoChange)
        /\ UNCHANGED <<windowListeners, treeVars, selectionVars, renderVars>>

\* a mousedown event on the slider element
AlphaSliderMouseDown ==
    \E s \in Sliders, offset \in PointerOffsets :
        LET r == AlphaSlider_onMouseDown(windowListeners, alphaSliders[s], s, offset, offset)
        IN  /\ alphaSliders[s].status = "mounted"
            /\ windowListeners' = r.listeners
            /\ alphaEvent' = AlphaEvent("mousedown", s, r.change)
            /\ UNCHANGED <<alphaSliders, treeVars, selectionVars, renderVars>>

\* a mousemove event on window: _onChange of every slider registered for it
WindowMouseMove ==
    \E s \in Sliders, offset \in PointerOffsets :
        /\ Listener("mousemove", s, "_onChange") \in windowListeners
        /\ alphaEvent' = AlphaEvent("mousemove", s,
                                    AlphaSlider_onChange(alphaSliders[s], offset, offset))
        /\ UNCHANGED <<alphaSliders, windowListeners, treeVars, selectionVars, renderVars>>

\* a mouseup event on window
WindowMouseUp ==
    /\ windowListeners' = Window_dispatchMouseUp(windowListeners,
                              {l \in windowListeners : l.type = "mouseup"})
    /\ alphaEvent' = [AlphaEvent("mouseup", 0, NoChange) EXCEPT !.had = windowListeners]
    /\ UNCHANGED <<alphaSliders, treeVars, selectionVars, renderVars>>

\* React unmounts the slider: componentWillUnmount, the ref becomes null
AlphaSliderUnmount ==
    \E s \in Sliders :
        /\ alphaSliders[s].status = "mounted"
        /\ windowListeners' = AlphaSlider_componentWillUnmount(windowListeners, s)
        /\ alphaSliders' = [alphaSliders EXCEPT ![s] = [AlphaSlider_new EXCEPT !.status = "gone"]]
        /\ alphaEvent' = AlphaEvent("unmount", s, NoChange)
        /\ UNCHANGED <<treeVars, selectionVars, renderVars>>

AlphaSliderNext ==
    \/ AlphaSliderMount
    \/ AlphaSliderMouseDown
    \/ WindowMouseMove
    \/ WindowMouseUp
    \/ AlphaSliderUnmount

SpecAlphaSlider == Init /\ [][AlphaSliderNext]_vars

(***************************************************************************)
(* The Tree and its data providers (specification SpecTree)                *)
(***************************************************************************)
TreeDid(type, provider, load, r, rendered) ==
    /\ tree' = r.tree
    /\ treeLoads' = r.loads
    /\ treeNodeChanged' = r.events
    /\ treeEvent' = [type |-> type, provider |-> provider, load |-> load,
                     rendered |-> rendered, was |-> tree]
    /\ UNCHANGED <<alphaVars, selectionVars, renderVars>>

\* render(<Tree dataProvider={provider} />)
TreeMount ==
    \E provider \in DataProviders :
        /\ tree.status = "new"
        /\ TreeDid("mount", provider, 0,
                   Tree_componentDidMount(tree, treeLoads, treeNodeChanged, provider), FALSE)

\* renderedTree.rerender(<Tree dataProvider={provider} />)
TreeRerender ==
    \E provider \in DataProviders :
        /\ tree.status = "mounted"
        /\ provider # tree.dataProvider => Len(treeLoads) < MaxLoads
        /\ TreeDid("rerender", provider, 0,
                   Tree_componentDidUpdate(tree, treeLoads, treeNodeChanged, provider), FALSE)

\* renderedTree.unmount()
TreeUnmount ==
    /\ tree.status = "mounted"
    /\ TreeDid("unmount", tree.dataProvider, 0,
               Tree_componentWillUnmount(tree, treeLoads, treeNodeChanged), FALSE)

\* the promise of a request for root nodes resolves
TreeLoadResolves ==
    \E load \in DOMAIN treeLoads :
        LET r == Tree_onModelLoaded(tree, load)
        IN  /\ treeLoads[load].state = "pending"
            /\ TreeDid("resolve", treeLoads[load].provider, load,
                       [tree |-> r.tree,
                        loads |-> [treeLoads EXCEPT ![load].state = "resolved"],
                        events |-> treeNodeChanged], r.rendered)

TreeNext ==
    \/ TreeMount
    \/ TreeRerender
    \/ TreeUnmount
    \/ TreeLoadResolves

SpecTree == Init /\ [][TreeNext]_vars

(***************************************************************************)
(* Shift selection of nodes that are not loaded (specification             *)
(* SpecTreeSelection)                                                      *)
(***************************************************************************)
SelectionDid(type, node, load, r) ==
    /\ treeSelection' = r
    /\ selectionEvent' = [type |-> type, node |-> node, load |-> load]
    /\ UNCHANGED <<alphaVars, treeVars, renderVars>>

\* fireEvent.click(getNode(node).contentArea)
NodeClick ==
    \E node \in TreeNodes :
        /\ IsLoaded(treeSelection.pages, node)
        /\ SelectionDid("click", node, 0, Tree_onNodeClick(treeSelection, node))

\* fireEvent.click(getNode(node).contentArea, { shiftKey: true })
NodeShiftClick ==
    \E node \in TreeNodes, cancelNow \in BOOLEAN :
        /\ IsLoaded(treeSelection.pages, node)
        /\ treeSelection.anchor # NoNode
        /\ Len(treeSelection.loads) < MaxSelectionLoads
        /\ SelectionDid("shiftClick", node, 0,
                        Tree_onNodeShiftClick(treeSelection, node, cancelNow))

\* renderedTree.rerender(<Tree selectedNodes={...} />)
SelectedNodesChange ==
    \E selectedNodes \in {{}, {"a"}} :
        SelectionDid("selectedNodes", NoNode, 0,
                     Tree_onSelectedNodesChanged(treeSelection, selectedNodes))

\* the owner calls the cancel function that a progress call of a load gave it
CancelSelectionLoad ==
    \E i \in DOMAIN treeSelection.loads :
        SelectionDid("cancel", NoNode, i,
                     [treeSelection EXCEPT !.loads = Tree_cancelSelectionLoad(@, i)])

\* delayedPromises["0"][page].resolve(...)
PageResolves ==
    \E node \in DelayedNodes, cancelNow \in BOOLEAN :
        /\ treeSelection.pages[node] = "pending"
        /\ SelectionDid("resolve", node, 0, Tree_onPageLoaded(treeSelection, node, cancelNow))

TreeSelectionNext ==
    \/ NodeClick
    \/ NodeShiftClick
    \/ SelectedNodesChange
    \/ CancelSelectionLoad
    \/ PageResolves

SpecTreeSelection == Init /\ [][TreeSelectionNext]_vars

TypeOK ==
    /\ numBuilt \in 0..MaxRes
    /\ disposeRun \in 0..2

(***************************************************************************)
(* Claims about one IdMap (specification Spec)                             *)
(***************************************************************************)
AtMostOne(S) == \A x \in S : \A y \in S : x = y

\* the calls of the history returned one instance, built by the first of them
OneInstance(ret, built) == AtMostOne(ret) /\ built <= 1 /\ (ret # {} => built = 1)

\* C1: between construction and dispose, all getMaterial calls with the same
\* non-empty key returned the identical Material, and one Material was
\* constructed for that key (by the first of the calls).
C1_SameKeySameMaterial ==
    ~hist.disposed =>
        \A k \in Keys : Truthy(k) => OneInstance(hist.matRet[k], hist.matBuilt[k])

\* C1 witness: a second getMaterial call with a non-empty key was served from the map
C1_Witness ==
    /\ ~hist.disposed
    /\ lastCall.op = "getMaterial" /\ Truthy(lastCall.key)
    /\ lastCall.built = 0 /\ lastCall.result \in hist.matRet[lastCall.key]

\* the texture history of key k is one of getTexture / getTextureFromImage calls only
OnlyGets(k) == ~hist.disposed /\ k \notin hist.cubeKeys

\* C2 (as amended): getTexture / getTextureFromImage calls with the same NON-EMPTY
\* key that returned a texture returned the identical texture, and one texture
\* handle was allocated for that key.
C2_SameKeySameTexture ==
    \A k \in Keys :
        (Truthy(k) /\ OnlyGets(k)) => OneInstance(hist.texRet[k], hist.texBuilt[k])

\* C2 (as claimed): the same for every DEFINED key, the empty string included.
C2_DefinedKeySameTexture ==
    \A k \in Keys : OnlyGets(k) => OneInstance(hist.texRet[k], hist.texBuilt[k])

\* C2 witness: a second texture call with a non-empty key was served from the map
C2_Witness ==
    /\ lastCall.op \in {"getTexture", "getTextureFromImage"}
    /\ Truthy(lastCall.key) /\ OnlyGets(lastCall.key)
    /\ lastCall.built = 0 /\ lastCall.result # NoResource
    /\ hist.texBuilt[lastCall.key] = 1

\* C3 (as amended): getClipVolume is keyed by the ClipVector OBJECT: calls with the
\* same ClipVector object that returned a volume returned the identical volume,
\* and one volume was built for that object.
C3_SameObjectSameClipVolume ==
    ~hist.disposed =>
        \A c \in ClipObjs : OneInstance(hist.clipRet[c.ref], hist.clipBuilt[c.ref])

\* what the calls with ClipVectors of value v returned
ClipRetOfValue(v) == UNION {hist.clipRet[c.ref] : c \in {d \in ClipObjs : d.val = v}}

\* C3 (as claimed): getClipVolume is keyed by the ClipVector VALUE: calls with
\* ClipVectors equal in value, distinct objects included, returned the identical
\* volume and one volume was built.
C3_SameValueSameClipVolume ==
    ~hist.disposed =>
        /\ \A c \in ClipObjs : AtMostOne(ClipRetOfValue(c.val))
        /\ \A c \in ClipObjs : \A d \in ClipObjs :
              (c.val = d.val /\ c.ref # d.ref) =>
                  hist.clipBuilt[c.ref] + hist.clipBuilt[d.ref] <= 1

\* C3 witness: a second call with the same ClipVector object was served from the map
C3_Witness ==
    /\ ~hist.disposed
    /\ lastCall.op = "getClipVolume"
    /\ lastCall.built = 0 /\ lastCall.result # NoResource
    /\ hist.clipBuilt[lastCall.ref] = 1

\* every entry of map f is an entry of map g
MapKept(f, g) == \A k \in DOMAIN f : k \in DOMAIN g /\ g[k] = f[k]
DictKept(d, e) ==
    \A x \in d : \E y \in e : compareSymb(x.key, y.key) = 0 /\ y.value = x.value

\* C4 (as claimed): key stability.  No IdMap operation other than dispose changes
\* the resource a key of one of the four maps is mapped to, and none constructs
\* a resource for a textures key that is already present (the cube-map variant
\* included).
C4_KeyStability ==
    [][lastCall'.op # "dispose" =>
          /\ MapKept(idMap.materials, idMap'.materials)
          /\ MapKept(idMap.textures, idMap'.textures)
          /\ DictKept(idMap.gradients, idMap'.gradients)
          /\ MapKept(idMap.clipVolumes, idMap'.clipVolumes)
          /\ (lastCall'.op = "getTextureFromCubeImages"
                /\ lastCall'.key \in DOMAIN idMap.textures) => lastCall'.built = 0]_vars

\* C5: getGradient is keyed by Gradient.Symb.compareSymb: the calls with symbols
\* that compare equal (distinct objects included) that returned a texture
\* returned the identical texture and one texture was created for them; calls
\* with symbols that compare unequal returned distinct textures.
C5_GradientByStructure ==
    ~hist.disposed =>
        /\ \A v \in SymbVals : OneInstance(hist.gradRet[v], hist.gradBuilt[v])
        /\ \A v \in SymbVals : \A w \in SymbVals :
              v # w => hist.gradRet[v] \cap hist.gradRet[w] = {}

\* C5 witness: a call with a symbol that is another object than, but compares
\* equal to, the symbol the texture was cached under returned the cached texture
C5_Witness ==
    /\ ~hist.disposed
    /\ lastCall.op = "getGradient" /\ lastCall.built = 0 /\ lastCall.result # NoResource
    /\ \E e \in idMap.gradients : e.value = lastCall.result /\ e.key.ref # lastCall.ref

\* a request that carries no cache key
Unkeyed(c) ==
    \/ c.op = "getMaterial" /\ ~Truthy(c.key)
    \/ c.op \in {"getTexture", "getTextureFromImage"} /\ c.key = UndefinedKey

\* resource x is an object no earlier call constructed
IsNew(x) == x.n = gen[<<x.kind, x.slot>>] + 1

\* C6: a request without a cache key is never served from a map and never
\* cached: it goes to construction on every call, the resource it returns is a
\* newly constructed one, and the four maps are left unchanged.
C6_UnkeyedNeverCached ==
    [][Unkeyed(lastCall') =>
          /\ idMap' = idMap
          /\ lastCall'.attempted
          /\ (lastCall'.op = "getMaterial" => lastCall'.result # NoResource)
          /\ (lastCall'.result # NoResource =>
                lastCall'.built = 1 /\ IsNew(lastCall'.result))]_vars

\* C6 witness: an unkeyed texture request returned a texture while the maps hold entries
C6_Witness ==
    /\ Unkeyed(lastCall) /\ lastCall.op = "getTexture" /\ lastCall.result # NoResource
    /\ idMap.textures # EmptyFn
    /\ lastCall.result \notin MapValues(idMap.textures)

\* the resources the maps hold that dispose(x) can release
Held(m) ==
    MapValues(m.textures) \cup Dictionary_values(m.gradients) \cup MapValues(m.clipVolumes)

\* C7 (as claimed): dispose() releases every resource the maps hold and leaves
\* all four maps empty.
C7_DisposeEmptiesAllMaps ==
    [][lastCall'.op = "dispose" =>
          /\ idMap'.materials = EmptyFn
          /\ idMap'.textures = EmptyFn
          /\ idMap'.gradients = {}
          /\ idMap'.clipVolumes = EmptyFn
          /\ \A x \in Held(idMap) : x \in DOMAIN released' /\ released'[x] >= 1]_vars

\* C8: a dispose() directly after a dispose() releases nothing (no resource is
\* released a second time) and leaves the IdMap as the first call left it.
C8_DisposeIdempotent ==
    [][disposeRun' = 2 => (idMap' = idMap /\ released' = released)]_vars

\* C8 witness: two dispose() calls in a row, the first of which released resources
C8_Witness ==
    /\ disposeRun = 2
    /\ \E x \in DOMAIN released : released[x] = 1
    /\ idMap.materials # EmptyFn

\* the operations that create through a factory that may return undefined
CreatingOps ==
    {"getTexture", "getTextureFromImage", "getTextureFromCubeImages", "getGradient",
     "getClipVolume"}

\* the key of call c is in no map of m (the cube-map variant looks no key up)
NotCached(m, c) ==
    /\ c.op \in {"getTexture", "getTextureFromImage"} => IdMap_findTexture(m, c.key) = NoResource
    /\ c.op = "getGradient" => \A e \in m.gradients : e.key.ref # c.ref
    /\ c.op = "getClipVolume" => c.ref \notin DOMAIN m.clipVolumes

\* C9: a call whose underlying creation fails returns undefined and inserts
\* nothing into any map, its key is left uncached, and a call that repeats it
\* attempts the creation again.
C9_FailureNotCached ==
    [][/\ (lastCall'.op \in CreatingOps /\ lastCall'.failed) =>
            /\ lastCall'.result = NoResource
            /\ idMap' = idMap
            /\ NotCached(idMap', lastCall')
       /\ (lastCall.failed /\ lastCall'.op = lastCall.op /\ lastCall'.key = lastCall.key
             /\ lastCall'.ref = lastCall.ref) => lastCall'.attempted]_vars

\* C9 witness: a getClipVolume call for which neither volume could be built
\* returned undefined while the IdMap holds other resources
C9_Witness ==
    /\ lastCall.op = "getClipVolume" /\ lastCall.failed /\ lastCall.result = NoResource
    /\ idMap.clipVolumes # EmptyFn

(***************************************************************************)
(* Claims about the System and its resource cache (specification           *)
(* SpecSystem)                                                             *)
(***************************************************************************)
\* every resource the four maps of an IdMap hold
AllRes(m) == MapValues(m.materials) \cup Held(m)

RequestOps ==
    {"createIModelMap", "createMaterial", "createTextureFromImageBuffer",
     "createTextureFromImage", "createTextureFromCubeImages", "getGradientTexture",
     "getClipVolume"}

\* the step is a close event for a connection that has an IdMap in resourceCache
ClosesTracked == lastSys'.op = "close" /\ lastSys'.conn \in DOMAIN resourceCache

\* the step is a resource request for a connection that a close event evicted
\* and that has had no request since
RequestsAfterClose ==
    /\ lastSys'.op \in RequestOps
    /\ lastSys'.conn \in Connections
    /\ evicted[lastSys'.conn] # {}
    /\ lastSys'.conn \notin DOMAIN resourceCache

\* C10: a close event for a connection with an IdMap in resourceCache disposes
\* that IdMap (dispose() ran on it, the resources it held are released) and
\* removes the connection from resourceCache; the next resource request for
\* the connection constructs a new IdMap, empty but for what the request
\* itself cached, that shares no resource with any IdMap constructed before.
C10_CloseEvictsIdMap ==
    [][/\ ClosesTracked =>
            /\ resourceCache[lastSys'.conn] \in disposedMaps'
            /\ Held(idMaps'[resourceCache[lastSys'.conn]]) = {}
            /\ \A x \in Held(idMaps[resourceCache[lastSys'.conn]]) :
                  x \in DOMAIN released' /\ released'[x] >= 1
            /\ lastSys'.conn \notin DOMAIN resourceCache'
       /\ RequestsAfterClose =>
            /\ lastSys'.created
            /\ lastSys'.idMap \notin DOMAIN idMaps
            /\ lastSys'.conn \in DOMAIN resourceCache'
            /\ resourceCache'[lastSys'.conn] = lastSys'.idMap
            /\ AllRes(idMaps'[lastSys'.idMap]) \subseteq {lastSys'.result}
            /\ \A i \in DOMAIN idMaps :
                  AllRes(idMaps'[lastSys'.idMap]) \cap AllRes(idMaps[i]) = {}]_vars

\* C10 witness: after its close event a connection was served by a new IdMap,
\* which cached the requested resource, while the evicted IdMap still is an
\* object that holds a resource
C10_Witness ==
    /\ lastSys.op \in RequestOps /\ lastSys.created
    /\ lastSys.conn \in Connections
    /\ lastSys.result \in AllRes(idMaps[lastSys.idMap])
    /\ \E i \in evicted[lastSys.conn] :
          /\ i \in disposedMaps /\ i # lastSys.idMap
          /\ AllRes(idMaps[i]) # {}

(***************************************************************************)
(* Claims about the lifetime of the System (specification SpecLifecycle)   *)
(***************************************************************************)
\* C11: the constructor subscribes the System to IModelConnection.onClose and
\* dispose() ends the subscription: once dispose() has returned no listener of
\* the System is registered on the event, and no close event runs
\* removeIModelMap on the disposed System.
C11_DisposeUnsubscribes ==
    sysDisposed => RemoveIModelMapListeners(onClose) = {} /\ lastSys.op # "close"

(***************************************************************************)
(* Claims about the texture-unit binding table (specification SpecTextures)*)
(***************************************************************************)
BindOps == {"bindTexture2d", "bindTextureCubeMap"}

\* the driver bind of a call: activeTexture(unit), then bindTexture(target, texture)
DriverBind(b) ==
    <<[fn |-> "activeTexture", unit |-> b.unit, target |-> "", texture |-> NullTexture],
      [fn |-> "bindTexture", unit |-> b.unit,
       target |-> IF b.op = "bindTexture2d" THEN "TwoDee" ELSE "CubeMap",
       texture |-> IF b.texture = UndefinedTexture THEN NullTexture ELSE b.texture]>>

\* C12: a bindTexture2d / bindTextureCubeMap call issues the driver bind
\* (activeTexture + bindTexture) exactly when the texture it is given differs
\* from the one the binding table holds for the unit; of two consecutive binds
\* to one unit the second issues no driver call when it binds the same texture
\* and issues the driver bind when it binds another.
C12_BindDeduplicated ==
    /\ lastBind.op \in BindOps =>
          lastBind.calls = IF lastBind.texture # lastBind.held
                           THEN DriverBind(lastBind) ELSE <<>>
    /\ (lastBind.op \in BindOps /\ prevBind.op \in BindOps /\ lastBind.unit = prevBind.unit) =>
          lastBind.calls = IF lastBind.texture # prevBind.texture
                           THEN DriverBind(lastBind) ELSE <<>>

\* C12 witness: a texture was bound to a unit, which issued the driver bind, and
\* was bound to the same unit again, which issued nothing
C12_Witness ==
    /\ prevBind.op \in BindOps /\ lastBind.op \in BindOps
    /\ prevBind.unit = lastBind.unit /\ prevBind.texture = lastBind.texture
    /\ lastBind.texture \in Textures
    /\ Len(prevBind.calls) = 2 /\ lastBind.calls = <<>>

(***************************************************************************)
(* Claims about the vertex attribute arrays (specification SpecAttribs)    *)
(***************************************************************************)
IsEnabled(state) == state \in {Enabled, InstancedEnabled}
IsInstanced(state) == state \in {Instanced, InstancedEnabled}

\* the driver calls of a sequence that are for slot i
CallsFor(calls, i) == SelectSeq(calls, LAMBDA c : c.slot = i)
CallSet(calls) == {calls[k] : k \in DOMAIN calls}

\* the arrays of the example: slot 0 enabled in current; slot 0 enabled and
\* slot 1 enabled and instanced in next
ExampleCur == [i \in AttribSlots |-> IF i = 0 THEN Enabled ELSE Disabled]
ExampleNext ==
    [i \in AttribSlots |-> IF i = 0 THEN Enabled
                           ELSE IF i = 1 THEN InstancedEnabled ELSE Disabled]

\* C13: updateVertexAttribArrays issues the driver enable call for slot i only
\* when the slot is disabled in current and enabled in next, the disable call
\* only when it is enabled in current and disabled in next, at most one of them,
\* and no driver call at all for a slot whose next state equals its current
\* state; called with current = [Enabled@0] and next = [Enabled@0,
\* InstancedEnabled@1] it issues exactly the enable call and the divisor call
\* for slot 1.
C13_ToggleOnlyOnChange ==
    lastUpdate.done =>
        /\ \A i \in AttribSlots :
              /\ EnableCall(i) \in CallSet(lastUpdate.calls) =>
                    ~IsEnabled(lastUpdate.cur[i]) /\ IsEnabled(lastUpdate.next[i])
              /\ DisableCall(i) \in CallSet(lastUpdate.calls) =>
                    IsEnabled(lastUpdate.cur[i]) /\ ~IsEnabled(lastUpdate.next[i])
              /\ Len(SelectSeq(lastUpdate.calls,
                               LAMBDA c : c \in {EnableCall(i), DisableCall(i)})) <= 1
              /\ lastUpdate.cur[i] = lastUpdate.next[i] =>
                    CallsFor(lastUpdate.calls, i) = <<>>
        /\ (lastUpdate.cur = ExampleCur /\ lastUpdate.next = ExampleNext
                /\ ~lastUpdate.threw) =>
              lastUpdate.calls = <<EnableCall(1), DivisorCall(1, 1)>>

\* C13 witness: the update of the example has run
C13_Witness ==
    /\ lastUpdate.done /\ ~lastUpdate.threw
    /\ lastUpdate.cur = ExampleCur /\ lastUpdate.next = ExampleNext
    /\ Len(lastUpdate.calls) = 2

\* C14: enableVertexAttribArray(id, instanced) sets next[id] to InstancedEnabled
\* or Enabled and does nothing else: no driver call, current as it was, every
\* other slot of next as it was.
C14_EnableOnlyRecords ==
    [][vaCall'.op = "enableVertexAttribArray" =>
          /\ nextVertexAttribStates'[vaCall'.id] =
                (IF vaCall'.instanced THEN InstancedEnabled ELSE Enabled)
          /\ \A j \in AttribSlots \ {vaCall'.id} :
                nextVertexAttribStates'[j] = nextVertexAttribStates[j]
          /\ curVertexAttribStates' = curVertexAttribStates
          /\ vaCall'.calls = <<>>]_vars

\* C14 witness: an instanced request for a slot the driver has disabled is
\* recorded in next while current still has the slot disabled
C14_Witness ==
    /\ vaCall.op = "enableVertexAttribArray" /\ vaCall.instanced
    /\ nextVertexAttribStates[vaCall.id] = InstancedEnabled
    /\ curVertexAttribStates[vaCall.id] = Disabled
    /\ \E j \in AttribSlots : j # vaCall.id /\ IsEnabled(curVertexAttribStates[j])

\* C15: updateVertexAttribArrays issues a divisor call for slot i only if the
\* slot is enabled in next and its Instanced bit differs between current and
\* next; no slot that is disabled after the update got a divisor call.
C15_DivisorOnlyWhenEnabled ==
    lastUpdate.done =>
        \A i \in AttribSlots :
            (\E d \in {0, 1} : DivisorCall(i, d) \in CallSet(lastUpdate.calls)) =>
                /\ IsEnabled(lastUpdate.next[i])
                /\ IsInstanced(lastUpdate.cur[i]) # IsInstanced(lastUpdate.next[i])
                /\ vaCall.op = "updateVertexAttribArrays" =>
                      IsEnabled(curVertexAttribStates[i])

\* C15 witness: an update took one slot from instanced to not instanced, with
\* the divisor call, and disabled another slot whose Instanced bit it left
\* alone, without one
C15_Witness ==
    /\ lastUpdate.done
    /\ \E i, j \in AttribSlots :
          /\ DivisorCall(i, 0) \in CallSet(lastUpdate.calls)
          /\ lastUpdate.cur[j] = InstancedEnabled /\ lastUpdate.next[j] = Instanced
          /\ CallsFor(lastUpdate.calls, j) = <<DisableCall(j)>>

\* C16: when updateVertexAttribArrays returns, current[i] is what next[i] was
\* when the call began and next[i] is that value without the Enabled bit and
\* with its Instanced bit, for every slot i.
C16_UpdateCommitsAndResets ==
    (lastUpdate.done /\ ~lastUpdate.threw /\ vaCall.op = "updateVertexAttribArrays") =>
        \A i \in AttribSlots :
            /\ curVertexAttribStates[i] = lastUpdate.next[i]
            /\ ~IsEnabled(nextVertexAttribStates[i])
            /\ IsInstanced(nextVertexAttribStates[i]) = IsInstanced(lastUpdate.next[i])

\* C16 witness: an update has returned that found a slot InstancedEnabled in
\* next: current has it InstancedEnabled, next has it Instanced
C16_Witness ==
    /\ lastUpdate.done /\ ~lastUpdate.threw /\ vaCall.op = "updateVertexAttribArrays"
    /\ \E i \in AttribSlots :
          /\ lastUpdate.next[i] = InstancedEnabled
          /\ curVertexAttribStates[i] = InstancedEnabled
          /\ nextVertexAttribStates[i] = Instanced

\* C17: when two consecutive updateVertexAttribArrays calls return and
\* enableVertexAttribArray requested the same slots with the same instanced
\* flags before each, the second issues no driver call.
C17_StableSetNoCalls ==
    (/\ prevUpdate.done /\ ~prevUpdate.threw
     /\ lastUpdate.done /\ ~lastUpdate.threw
     /\ lastUpdate.requested = prevUpdate.requested) =>
        lastUpdate.calls = <<>>

\* C17 witness: two updates in a row were asked for the same slots, one of them
\* instanced, and the second issued no driver call
C17_Witness ==
    /\ prevUpdate.done /\ ~prevUpdate.threw /\ lastUpdate.done /\ ~lastUpdate.threw
    /\ lastUpdate.requested = prevUpdate.requested
    /\ \E i, j \in AttribSlots :
          lastUpdate.requested[i] = InstancedEnabled /\ lastUpdate.requested[j] = Enabled
    /\ lastUpdate.calls = <<>>

(***************************************************************************)
(* Claims about Capabilities.create (specification SpecCapabilities)       *)
(***************************************************************************)
\* the context lists the extension as supported
Lists(ext) == gl.hasList /\ ext \in gl.listed
\* the context lists the extension and getExtension returns an object for it
Enables(ext) == Lists(ext) /\ ext \in gl.enables
EnoughTextureUnits == gl.maxFragTextureUnits > 4 /\ gl.maxVertTextureUnits > 5

\* C18 as stated: Capabilities.create returns a Capabilities for every context
\* that lists OES_element_index_uint among its supported extensions and reports
\* more than 4 fragment and more than 5 vertex texture units.
C18_ListedIndexSuffices ==
    (probe.done /\ Lists("OES_element_index_uint") /\ EnoughTextureUnits) => probe.created

\* C18 amended: Capabilities.create returns a Capabilities for every context
\* that lists OES_element_index_uint, returns an object from getExtension for
\* it, and reports more than 4 fragment and more than 5 vertex texture units,
\* whatever its other extensions are.
C18_EnabledIndexSuffices ==
    (probe.done /\ Enables("OES_element_index_uint") /\ EnoughTextureUnits) => probe.created

\* C18 witness: create succeeded on a context with 5 fragment and 6 vertex
\* texture units whose only extension is OES_element_index_uint
C18_Witness ==
    /\ probe.done /\ probe.created
    /\ gl.hasList /\ gl.listed = {"OES_element_index_uint"} /\ gl.enables = gl.listed
    /\ gl.maxFragTextureUnits = 5 /\ gl.maxVertTextureUnits = 6

\* C19: Capabilities.create returns undefined whenever the context gives no
\* OES_element_index_uint extension object, or reports 4 or fewer fragment
\* texture units, or 5 or fewer vertex texture units, whatever else it has.
C19_MissingRequirementFails ==
    (probe.done /\ (\/ ~Enables("OES_element_index_uint")
                    \/ gl.maxFragTextureUnits <= 4
                    \/ gl.maxVertTextureUnits <= 5)) => ~probe.created

\* C19 witness: create returned undefined for a context with enough texture
\* units and every extension but OES_element_index_uint
C19_Witness ==
    /\ probe.done /\ ~probe.created
    /\ EnoughTextureUnits
    /\ gl.hasList /\ gl.listed = Extensions \ {"OES_element_index_uint"}
    /\ gl.enables = gl.listed

\* C20: for each extension of the allow-list the probe keeps a handle, and the
\* supports* flag of the extension is true, if and only if the context lists
\* the extension and getExtension returns an object for it; getExtension is
\* never called for an extension outside the allow-list and no handle is kept
\* for one.
C20_HandleIffEnabled ==
    probe.done =>
        /\ \A ext \in AllowList :
              (/\ ext \in DOMAIN probe.caps.extensionMap
               /\ probe.caps.extensionMap[ext] = ExtensionObject(ext)) <=> Enables(ext)
        /\ \A flag \in DOMAIN SupportsFlag :
              Capabilities_supports(probe.caps, flag) <=> Enables(SupportsFlag[flag])
        /\ probe.getExtensionCalls \subseteq AllowList
        /\ DOMAIN probe.caps.extensionMap \subseteq AllowList

\* C20 witness: the probe ran on a context that lists ANGLE_instanced_arrays
\* and enables it, lists WEBGL_draw_buffers but returns null for it, and lists
\* and would enable an extension outside the allow-list
C20_Witness ==
    /\ probe.done
    /\ Enables("ANGLE_instanced_arrays")
    /\ Capabilities_supports(probe.caps, "supportsInstancing")
    /\ Lists("WEBGL_draw_buffers") /\ ~Enables("WEBGL_draw_buffers")
    /\ ~Capabilities_supports(probe.caps, "supportsDrawBuffers")
    /\ "WEBGL_draw_buffers" \in probe.getExtensionCalls
    /\ \E ext \in OtherExtensions : Enables(ext) /\ ext \notin probe.getExtensionCalls

\* C21: maxRenderType is TextureFloat if and only if a FLOAT texture is
\* color-renderable on the context; otherwise it is TextureHalfFloat if and
\* only if the probe enabled OES_texture_half_float and a HALF_FLOAT texture
\* is color-renderable; otherwise it is TextureUnsignedByte.  The presence of
\* OES_texture_float or EXT_color_buffer_float decides nothing.
C21_RenderTypeByProbe ==
    probe.done =>
        probe.caps.maxRenderType =
            IF "FLOAT" \in gl.renderable THEN "TextureFloat"
            ELSE IF Enables("OES_texture_half_float") /\ "HALF_FLOAT_OES" \in gl.renderable
                 THEN "TextureHalfFloat"
                 ELSE "TextureUnsignedByte"

\* C21 witness: the probe ran on a context that enables OES_texture_float and
\* OES_texture_half_float but on which only a HALF_FLOAT texture is
\* color-renderable, and maxRenderType is TextureHalfFloat
C21_Witness ==
    /\ probe.done
    /\ Enables("OES_texture_float") /\ Enables("OES_texture_half_float")
    /\ gl.renderable = {"HALF_FLOAT_OES"}
    /\ probe.caps.maxRenderType = "TextureHalfFloat"

\* C22: on the capabilities of every context the probe accepts,
\* createDepthBuffer takes the RenderBufferUnsignedShort16, the
\* TextureUnsignedInt32 or the TextureUnsignedInt24Stencil8 branch, never the
\* default branch, and in the TextureUnsignedInt24Stencil8 branch the
\* WEBGL_depth_texture handle is defined.
C22_DepthBranchTaken ==
    depthCall.done =>
        /\ depthCall.branch \in {"RenderBufferUnsignedShort16", "TextureUnsignedInt32",
                                  "TextureUnsignedInt24Stencil8"}
        /\ depthCall.branch = "TextureUnsignedInt24Stencil8" =>
              depthCall.dtExt = ExtensionObject("WEBGL_depth_texture")
        /\ ~depthCall.failed

\* C22 witness: createDepthBuffer took the TextureUnsignedInt24Stencil8 branch
\* with the handle of WEBGL_depth_texture
C22_Witness ==
    /\ depthCall.done /\ depthCall.branch = "TextureUnsignedInt24Stencil8"
    /\ depthCall.dtExt = ExtensionObject("WEBGL_depth_texture")
    /\ probe.caps.maxDepthType = "TextureUnsignedInt24Stencil8"

\* C23: System.create fails outright when no WebGL context can be obtained or
\* when Capabilities.create returns undefined for the context: it throws, no
\* System is constructed and no listener of IModelConnection.onClose is
\* registered.
C23_CreateFailsOutright ==
    (system.done /\ (~system.hasContext \/ ~Capabilities_create(gl).created)) =>
        /\ system.threw
        /\ ~system.instance
        /\ onClose = BeEvent_new

\* C23 witness: a context was obtained, Capabilities.create returned undefined
\* for it, and System.create threw without subscribing to onClose
C23_Witness ==
    /\ system.done /\ system.hasContext
    /\ probe.done /\ ~probe.created
    /\ system.threw /\ system.error = "Failed to initialize rendering capabilities"
    /\ onClose = BeEvent_new

\* C24: resourceCache holds at most one IdMap per connection.  A request for
\* a connection that has no IdMap creates one and stores it under the
\* connection; every later request for the connection, until the connection
\* is closed, is served by that same IdMap and creates none.  The IdMaps of
\* the other connections stay where they are.
C24_OneIdMapPerConnection ==
    [][(lastSys'.op \in RequestOps /\ lastSys'.conn \in Connections) =>
        LET c == lastSys'.conn
        IN  /\ c \in DOMAIN resourceCache' /\ resourceCache'[c] = lastSys'.idMap
            /\ c \in DOMAIN resourceCache =>
                  /\ ~lastSys'.created
                  /\ lastSys'.idMap = resourceCache[c]
                  /\ DOMAIN idMaps' = DOMAIN idMaps
            /\ c \notin DOMAIN resourceCache =>
                  /\ lastSys'.created
                  /\ lastSys'.idMap \notin DOMAIN idMaps
            /\ \A d \in DOMAIN resourceCache' \ {c} :
                  d \in DOMAIN resourceCache /\ resourceCache'[d] = resourceCache[d]]_vars

\* C24 witness: a request for a connection that already had an IdMap was
\* served by that IdMap, which built a second resource, and no IdMap was made
C24_Witness ==
    /\ lastSys.op \in RequestOps \ {"createIModelMap"}
    /\ lastSys.conn \in DOMAIN resourceCache
    /\ resourceCache[lastSys.conn] = lastSys.idMap
    /\ ~lastSys.created /\ lastSys.built = 1
    /\ Cardinality(DOMAIN idMaps) = 1 /\ numBuilt = 2

\* C30: createTextureFromImage with an undefined connection never touches
\* the resource cache: it creates no IdMap, caches the texture in no IdMap
\* even when the parameters carry a key, and returns a new texture on each
\* call, or undefined if the handle cannot be created.
C30_NoConnectionNoCache ==
    [][(lastSys'.op = "createTextureFromImage" /\ lastSys'.conn = UndefinedConnection) =>
        /\ resourceCache' = resourceCache
        /\ idMaps' = idMaps
        /\ ~lastSys'.created /\ lastSys'.idMap = NoIdMap
        /\ lastSys'.result = NoResource \/ IsNew(lastSys'.result)
        /\ lastSys'.result = NoResource <=> lastSys'.built = 0]_vars

\* C30 witness: two textures were made for an undefined connection and
\* there is no IdMap at all
C30_Witness ==
    /\ lastSys.op = "createTextureFromImage" /\ lastSys.conn = UndefinedConnection
    /\ lastSys.result # NoResource
    /\ numBuilt = 2
    /\ DOMAIN resourceCache = {} /\ DOMAIN idMaps = {}

\* C25: onTextureDisposed for a handle that is not tracked (never created, or
\* disposed since it was created) fails its assertion; onTextureCreated for a
\* handle that is tracked fails its assertion; and in a sequence of calls in
\* which each handle is created once and disposed at most once, afterwards,
\* no assertion fails.
C25_AssertionsOnMisuseOnly ==
    /\ (statCall.op = "onTextureDisposed" /\ statCall.was # "live") => statCall.failed
    /\ (statCall.op = "onTextureCreated" /\ statCall.was = "live") => statCall.failed
    /\ statHist.ordered => ~statHist.failed

\* C25 witness: every handle was created once and then disposed, in order,
\* and no assertion failed
C25_Witness ==
    /\ statHist.ordered /\ ~statHist.failed
    /\ \A t \in Textures : statHist.life[t] = "gone"
    /\ statCall.op = "onTextureDisposed" /\ ~statCall.failed
    /\ textureStats.allocated = {}

\* C29: no vertex attribute array stays enabled beyond the draw that
\* requested it.  When updateVertexAttribArrays returns, a slot that was
\* enabled in the driver by an earlier update and that enableVertexAttribArray
\* has not requested since has been disabled with exactly one driver call,
\* the disable call, and is disabled in current; and a slot that was disabled
\* and has not been requested since the update before gets no driver call.
C29_EnabledForOneDrawOnly ==
    (lastUpdate.done /\ ~lastUpdate.threw) =>
        \A i \in AttribSlots :
            lastUpdate.requested[i] = Disabled =>
                /\ IsEnabled(lastUpdate.cur[i]) =>
                      CallsFor(lastUpdate.calls, i) = <<DisableCall(i)>>
                /\ ~IsEnabled(lastUpdate.cur[i]) => CallsFor(lastUpdate.calls, i) = <<>>
                /\ vaCall.op = "updateVertexAttribArrays" =>
                      ~IsEnabled(curVertexAttribStates[i])

\* C29 witness: an update found a slot enabled and instanced that had not
\* been requested again and disabled it, while it enabled another slot
C29_Witness ==
    /\ lastUpdate.done /\ ~lastUpdate.threw /\ prevUpdate.done /\ ~prevUpdate.threw
    /\ vaCall.op = "updateVertexAttribArrays"
    /\ \E i, j \in AttribSlots :
          /\ lastUpdate.cur[i] = InstancedEnabled /\ lastUpdate.requested[i] = Disabled
          /\ CallsFor(lastUpdate.calls, i) = <<DisableCall(i)>>
          /\ curVertexAttribStates[i] = Instanced
          /\ EnableCall(j) \in CallSet(lastUpdate.calls)

\* C28: on a getClipVolume miss ClipPlanesVolume.create is called only after
\* ClipMaskVolume.create was called and returned undefined; when the mask
\* volume can be built it is the one returned and cached; and at most one
\* volume is constructed, the one stored under the ClipVector (none when
\* neither can be built).
C28_MaskBeforePlanes ==
    (lastCall.op = "getClipVolume" /\ lastCall.attempted) =>
        /\ lastCall.tried \in {<<"ClipMaskVolume">>, <<"ClipMaskVolume", "ClipPlanesVolume">>}
        /\ Len(lastCall.tried) = 2 => ~lastCall.maskVolume
        /\ lastCall.maskVolume =>
              /\ lastCall.kind = "mask" /\ lastCall.result # NoResource
              /\ MapGet(idMap.clipVolumes, lastCall.ref) = lastCall.result
        /\ lastCall.built <= 1
        /\ MapGet(idMap.clipVolumes, lastCall.ref) = lastCall.result
        /\ lastCall.kind = "none" <=> lastCall.result = NoResource

\* C28 witness: the mask volume of a ClipVector could not be built, the
\* plane volume was built after it and is the one stored
C28_Witness ==
    /\ lastCall.op = "getClipVolume" /\ lastCall.attempted
    /\ lastCall.tried = <<"ClipMaskVolume", "ClipPlanesVolume">>
    /\ lastCall.kind = "planes" /\ lastCall.built = 1
    /\ MapGet(idMap.clipVolumes, lastCall.ref) = lastCall.result
    /\ lastCall.result # NoResource

(***************************************************************************)
(* Claims about sheet tiles (specification SpecSheetTiles)                 *)
(***************************************************************************)
\* the UV parameters of the corners of the unit square, from (0,0) counter-clockwise
UnitSquare ==
    <<[x |-> Frac(0, 1), y |-> Frac(0, 1)], [x |-> Frac(1, 1), y |-> Frac(0, 1)],
      [x |-> Frac(1, 1), y |-> Frac(1, 1)], [x |-> Frac(0, 1), y |-> Frac(1, 1)]>>

\* C26: for a 4-corner axis-aligned rectangle of any width and height and no
\* clip, createSheetTilePolyfaces returns one polyface of exactly one quad
\* facet, on the corners, whose UV parameters are (0,0), (1,0), (1,1), (0,1)
\* in point order.
C26_UVSpanUnitSquare ==
    (sheetTilePolys.done /\ ~sheetTile.hasClip) =>
        sheetTilePolys.polys = <<<<Facet(sheetTile.corners, UnitSquare)>>>>

\* how many facets a clipped polygon is to contribute
FacetCount(polygon) ==
    IF Len(polygon.points) < 3 THEN 0
    ELSE IF Len(polygon.points) <= 4 THEN 1
    ELSE Cardinality({k \in DOMAIN polygon.faces : ~polygon.faces[k].exterior})

RECURSIVE FacetsBefore(_, _)
FacetsBefore(polygons, k) ==
    IF k <= 1 THEN 0 ELSE FacetsBefore(polygons, k - 1) + FacetCount(polygons[k - 1])

\* C27: when the clipping yields no polygon createSheetTilePolyfaces returns
\* an empty list; otherwise it returns exactly one polyface, whose facets are,
\* polygon after polygon: none for a polygon of fewer than 3 vertices, one
\* facet on the points of the polygon for a polygon of 3 or 4 vertices, and
\* for a larger polygon one triangle for each face loop that is not masked
\* exterior, and nothing else.
C27_DegeneratePolicy ==
    (sheetTilePolys.done /\ sheetTile.hasClip) =>
        IF sheetTile.clipped = <<>>
        THEN sheetTilePolys.polys = <<>>
        ELSE /\ Len(sheetTilePolys.polys) = 1
             /\ LET polyface == sheetTilePolys.polys[1]
                     polygons == sheetTile.clipped
                 IN  /\ Len(polyface) = FacetsBefore(polygons, Len(polygons) + 1)
                     /\ \A k \in DOMAIN polygons :
                           LET first == FacetsBefore(polygons, k)
                               n == Len(polygons[k].points)
                           IN  /\ n \in {3, 4} => polyface[first + 1].points = polygons[k].points
                               /\ n > 4 =>
                                     \A j \in 1..FacetCount(polygons[k]) :
                                        /\ Len(polyface[first + j].points) = 3
                                        /\ \E f \in DOMAIN polygons[k].faces :
                                              /\ ~polygons[k].faces[f].exterior
                                              /\ polygons[k].faces[f].nodes
                                                    = polyface[first + j].points

\* C27 witness: the clipping gave a polygon of 2 points and a polygon of 5
\* points with an exterior face loop and two triangles, and the one polyface
\* returned has the two triangles
C27_Witness ==
    /\ sheetTilePolys.done /\ sheetTile.hasClip
    /\ Len(sheetTile.clipped) = 2
    /\ Len(sheetTile.clipped[1].points) = 2
    /\ Len(sheetTile.clipped[2].points) = 5 /\ Len(sheetTile.clipped[2].faces) = 3
    /\ Len(sheetTilePolys.polys) = 1 /\ Len(sheetTilePolys.polys[1]) = 2

\* C40: after any sequence of onTextureCreated / onTextureDisposed calls in
\* which no handle is disposed before it is created (no assertion failed),
\* the recorded maximum size is the largest width * height among the handles
\* currently allocated, and 0 when none is allocated.
C40_MaxSizeOfAllocated ==
    ~statHist.failed =>
        IF textureStats.allocated = {}
        THEN textureStats.maxSize = 0
        ELSE /\ \E t \in textureStats.allocated :
                   textureStats.maxSize = handles[t][1] * handles[t][2]
             /\ \A t \in textureStats.allocated :
                   handles[t][1] * handles[t][2] <= textureStats.maxSize

\* C40 witness: the largest of two handles was disposed and the maximum fell
\* to the size of the smaller one, which is still allocated
C40_Witness ==
    /\ ~statHist.failed
    /\ statCall.op = "onTextureDisposed"
    /\ handles[statCall.tex][1] * handles[statCall.tex][2] = 4
    /\ textureStats.allocated # {}
    /\ textureStats.maxSize = 2

\* C39: after System.dispose(), from any state, every IdMap that was in
\* resourceCache has been disposed (it holds no resource any more and every
\* resource it held has been released) and resourceCache is empty; a
\* dispose() that follows a dispose() releases nothing and changes no IdMap.
C39_DisposeReleasesEveryIdMap ==
    [][lastSys'.op = "dispose" =>
          /\ resourceCache' = EmptyFn
          /\ \A i \in MapValues(resourceCache) :
                /\ i \in disposedMaps'
                /\ Held(idMaps'[i]) = {}
                /\ \A x \in Held(idMaps[i]) : x \in DOMAIN released' /\ released'[x] >= 1
          /\ \A i \in DOMAIN idMaps \ MapValues(resourceCache) : idMaps'[i] = idMaps[i]
          /\ (lastSys.op = "dispose" \/ resourceCache = EmptyFn) =>
                released' = released /\ idMaps' = idMaps /\ disposedMaps' = disposedMaps]_vars

\* C39 witness: dispose() found the IdMaps of two connections in resourceCache,
\* disposed both and released what they held
C39_Witness ==
    /\ lastSys.op = "dispose" /\ sysDisposed
    /\ resourceCache = EmptyFn
    /\ Cardinality(disposedMaps) = 2
    /\ \A c \in Connections : evicted[c] = {}
    /\ \E x \in DOMAIN released : released[x] = 1
    /\ \A i \in disposedMaps : Held(idMaps[i]) = {}

\* what the driver has for a slot is what current says of it
Mirrors(d, state) ==
    /\ d.enabled = IsEnabled(state)
    /\ d.divisor = IF IsInstanced(state) THEN 1 ELSE 0

\* C35: after every updateVertexAttribArrays that returns, for every slot the
\* array is enabled in the driver exactly if current has the Enabled bit and
\* its divisor in the driver is 1 if current has the Instanced bit and 0 if
\* not, whatever enable and update calls were made before
C35_DriverMirrorsCurrent ==
    (lastUpdate.done /\ ~lastUpdate.threw /\ vaCall.op = "updateVertexAttribArrays") =>
        \A i \in AttribSlots : Mirrors(driverAttribs[i], curVertexAttribStates[i])

\* C35 witness: an update has returned that left one slot enabled with divisor
\* 1 and another disabled with divisor 1 in the driver, as current has them
C35_Witness ==
    /\ lastUpdate.done /\ ~lastUpdate.threw /\ vaCall.op = "updateVertexAttribArrays"
    /\ \E i, j \in AttribSlots :
          /\ curVertexAttribStates[i] = InstancedEnabled
          /\ driverAttribs[i] = [enabled |-> TRUE, divisor |-> 1]
          /\ curVertexAttribStates[j] = Instanced
          /\ driverAttribs[j] = [enabled |-> FALSE, divisor |-> 1]
          /\ lastUpdate.calls # <<>>

\* C36: after disposeTexture(t) no entry of the texture-unit binding table
\* holds t, to however many units t was bound before
C36_NoBindingHoldsDisposed ==
    lastBind.op = "disposeTexture" =>
        \A i \in DOMAIN textureBindings : textureBindings[i] # lastBind.texture

\* C37: the caches of different connections are isolated: what a request for
\* a connection returns is held by no IdMap but the one of that connection,
\* whatever the key, and a close event for a connection leaves the IdMap of
\* every other connection in resourceCache, with its four maps as they were
\* and none of its resources released.
C37_ConnectionsIsolated ==
    [][/\ (lastSys'.op \in RequestOps /\ lastSys'.conn \in Connections
            /\ lastSys'.result # NoResource) =>
            \A i \in DOMAIN idMaps \ {lastSys'.idMap} :
                lastSys'.result \notin AllRes(idMaps[i])
       /\ lastSys'.op = "close" =>
            \A d \in DOMAIN resourceCache \ {lastSys'.conn} :
                /\ d \in DOMAIN resourceCache' /\ resourceCache'[d] = resourceCache[d]
                /\ idMaps'[resourceCache[d]] = idMaps[resourceCache[d]]
                /\ \A x \in AllRes(idMaps[resourceCache[d]]) :
                      (x \in DOMAIN released' <=> x \in DOMAIN released)
                      /\ (x \in DOMAIN released => released'[x] = released[x])]_vars

\* C37 witness: two connections have each an IdMap that holds a resource
\* made for the same key, and the two resources differ
C37_Witness ==
    /\ DOMAIN resourceCache = Connections
    /\ resourceCache["imodelA"] # resourceCache["imodelB"]
    /\ \E x \in AllRes(idMaps[resourceCache["imodelA"]]),
          y \in AllRes(idMaps[resourceCache["imodelB"]]) :
          x.kind = y.kind /\ x.slot = y.slot /\ x # y
    /\ lastSys.op \in RequestOps /\ lastSys.built = 1

(***************************************************************************)
(* Claims about lookups (specification SpecLookup)                         *)
(***************************************************************************)
\* C38: findMaterial and findTexture are pure lookups: for a connection
\* without an IdMap they return undefined and create none, and for any
\* connection they change neither resourceCache nor any IdMap, construct and
\* release nothing, and return undefined or a resource the IdMap of the
\* connection holds; a close event for a connection without an IdMap changes
\* nothing.
C38_FindIsPure ==
    [][/\ lastSys'.op \in {"findMaterial", "findTexture"} =>
            /\ resourceCache' = resourceCache
            /\ idMaps' = idMaps
            /\ released' = released /\ numBuilt' = numBuilt
            /\ ~lastSys'.created
            /\ lastSys'.conn \notin DOMAIN resourceCache => lastSys'.result = NoResource
            /\ lastSys'.result # NoResource =>
                  lastSys'.result \in AllRes(idMaps[resourceCache[lastSys'.conn]])
       /\ (lastSys'.op = "close" /\ lastSys'.conn \notin DOMAIN resourceCache) =>
            /\ resourceCache' = resourceCache
            /\ idMaps' = idMaps
            /\ released' = released /\ disposedMaps' = disposedMaps]_vars

\* C38 witness: a lookup for a connection that has no IdMap returned
\* undefined and left it without one, while the other connection has an
\* IdMap that holds resources
C38_Witness ==
    /\ lastSys.op \in {"findMaterial", "findTexture"}
    /\ lastSys.conn \notin DOMAIN resourceCache
    /\ lastSys.result = NoResource
    /\ \E d \in DOMAIN resourceCache : AllRes(idMaps[resourceCache[d]]) # {}

(***************************************************************************)
(* Claims about AlphaSlider (specification SpecAlphaSlider)                *)
(***************************************************************************)
BothListeners(s) ==
    {Listener("mousemove", s, "_onChange"), Listener("mouseup", s, "_onMouseUp")}

\* C34: an AlphaSlider registers its mousemove and mouseup listeners on window
\* only in a mousedown on it, both together; after a mouseup event on window no
\* listener of any slider is registered, and after a slider is unmounted none
\* of its listeners is; a slider that is not mounted has no listener.
C34_ListenersOnlyWhilePressed ==
    /\ [](/\ alphaEvent.type = "mouseup" => windowListeners = {}
          /\ alphaEvent.type = "unmount" => OwnListeners(windowListeners, alphaEvent.slider) = {}
          /\ \A s \in Sliders :
                /\ OwnListeners(windowListeners, s) \in {{}, BothListeners(s)}
                /\ alphaSliders[s].status # "mounted" => OwnListeners(windowListeners, s) = {})
    /\ [][\A s \in Sliders :
            ~(OwnListeners(windowListeners', s) \subseteq OwnListeners(windowListeners, s)) =>
                alphaEvent'.type = "mousedown" /\ alphaEvent'.slider = s]_vars

\* C34 witness: a slider was unmounted while it had both listeners on window
\* and another slider still has its own
C34_Witness ==
    /\ alphaEvent.type = "unmount"
    /\ alphaEvent.had = BothListeners(alphaEvent.slider)
    /\ OwnListeners(windowListeners, alphaEvent.slider) = {}
    /\ windowListeners # {}

=============================================================================
